---------------------------- MODULE Spec2Model ----------------------------
(***************************************************************************)
(* A model of the webbundle crate: the Builder, the Encoder and the        *)
(* Decoder of src/webbundle/src.  Byte strings are sequences of 0..255,    *)
(* Rust Strings are the sequences of their UTF-8 bytes, Option<T> is a     *)
(* sequence of length at most one, and Result<T> is a record whose field   *)
(* kind is "ok", "err" or (for a Rust panic) "panic".                      *)
(***************************************************************************)
EXTENDS Integers, Sequences, FiniteSets, TLC

VARIABLES
    builder,    \* the Builder under construction
    hist,       \* history: the last version and primary_url passed, the exchanges passed
    bundle,     \* the result of Builder::build
    encoded,    \* the result of Bundle::encode on the built bundle
    input,      \* the bytes handed to Bundle::from_bytes
    parsed,     \* the result of Bundle::from_bytes
    reencoded,  \* the result of Bundle::encode on the parsed bundle
    call,       \* the arguments of the last call made outside the builder pipeline
    ret,        \* what that call returned
    pc          \* how far the run has come

vars == <<builder, hist, bundle, encoded, input, parsed, reencoded, call, ret, pc>>

(***************************************************************************)
(* Bounds of the model.                                                    *)
(***************************************************************************)
\* the builder accepts at most this many exchange() calls
MaxExchanges == 2

(***************************************************************************)
(* Option and Result.                                                      *)
(***************************************************************************)
None == <<>>

Some(x) == <<x>>

Ok(v) == [kind |-> "ok", val |-> v]

Err == [kind |-> "err", val |-> <<>>]

Panic == [kind |-> "panic", val |-> <<>>]

IsOk(r) == r.kind = "ok"

\* the ? operator: the value of an Ok goes on to F, an Err (or a panic) is the result
Try(r, F(_)) == IF r.kind = "ok" THEN F(r.val) ELSE [kind |-> r.kind, val |-> <<>>]

\* let v = ...; F(v)
Let(v, F(_)) == F(v)

(***************************************************************************)
(* Generic helpers on sequences.                                           *)
(***************************************************************************)
Range(s) == {s[i] : i \in DOMAIN s}

\* s[from..to) with 0-based positions, as a Rust slice
Slice(s, from, to) == SubSeq(s, from + 1, to)

\* Ord for Vec<u8>: lexicographic, a proper prefix is smaller
RECURSIVE LexLess(_, _)
LexLess(a, b) ==
    IF b = <<>> THEN FALSE
    ELSE IF a = <<>> THEN TRUE
    ELSE IF Head(a) # Head(b) THEN Head(a) < Head(b)
    ELSE LexLess(Tail(a), Tail(b))

\* u64::to_be_bytes and friends: n as w big-endian bytes
RECURSIVE BE(_, _)
BE(n, w) == IF w = 0 THEN <<>> ELSE BE(n \div 256, w - 1) \o <<n % 256>>

\* the value of big-endian bytes
RECURSIVE FromBE(_)
FromBE(bs) ==
    IF bs = <<>> THEN 0 ELSE FromBE(SubSeq(bs, 1, Len(bs) - 1)) * 256 + bs[Len(bs)]

\* u16::to_string: the ASCII decimal digits of n
RECURSIVE ToDecimal(_)
ToDecimal(n) ==
    IF n < 10 THEN <<48 + n>> ELSE ToDecimal(n \div 10) \o <<48 + (n % 10)>>

(***************************************************************************)
(* cbor_event::se::Serializer: the bytes each write_* call appends.        *)
(***************************************************************************)
CborHeader(major, n) ==
    IF n < 24 THEN <<major * 32 + n>>
    ELSE IF n < 256 THEN <<major * 32 + 24>> \o BE(n, 1)
    ELSE IF n < 65536 THEN <<major * 32 + 25>> \o BE(n, 2)
    ELSE <<major * 32 + 26>> \o BE(n, 4)

write_unsigned_integer(n) == CborHeader(0, n)

write_bytes(bs) == CborHeader(2, Len(bs)) \o bs

write_text(s) == CborHeader(3, Len(s)) \o s

write_array(n) == CborHeader(4, n)

write_map(n) == CborHeader(5, n)

(***************************************************************************)
(* std::collections::BTreeMap<Vec<u8>, Vec<u8>>: a sequence of <<key,      *)
(* value>> pairs kept in ascending key order; insert replaces the value of *)
(* an equal key.                                                           *)
(***************************************************************************)
BTreeMapNew == <<>>

\* a map that keeps its entries in the order of their first insertion: what
\* the encoder would build on a Vec instead of a BTreeMap
RECURSIVE VecMapInsert(_, _, _)
VecMapInsert(map, key, value) ==
    IF map = <<>> THEN << <<key, value>> >>
    ELSE IF Head(map)[1] = key THEN << <<key, value>> >> \o Tail(map)
    ELSE <<Head(map)>> \o VecMapInsert(Tail(map), key, value)

RECURSIVE BTreeMapInsert(_, _, _)
BTreeMapInsert(map, key, value) ==
    IF map = <<>> THEN << <<key, value>> >>
    ELSE IF Head(map)[1] = key THEN << <<key, value>> >> \o Tail(map)
    ELSE IF LexLess(key, Head(map)[1]) THEN << <<key, value>> >> \o map
    ELSE <<Head(map)>> \o BTreeMapInsert(Tail(map), key, value)

\* the bytes written by `for (key, value) in map { write_raw_bytes(key); write_raw_bytes(value) }`
RECURSIVE MapEntriesBytes(_)
MapEntriesBytes(map) ==
    IF map = <<>> THEN <<>>
    ELSE Head(map)[1] \o Head(map)[2] \o MapEntriesBytes(Tail(map))

(***************************************************************************)
(* bundle.rs: constants and Version.                                       *)
(***************************************************************************)
HEADER_MAGIC_BYTES == <<240, 159, 140, 144, 240, 159, 147, 166>>

VERSION_BYTES_LEN == 4

TOP_ARRAY_LEN == 5

\* "index", "critical", "responses", "primary"
KNOWN_SECTION_NAMES ==
    { <<105, 110, 100, 101, 120>>,
      <<99, 114, 105, 116, 105, 99, 97, 108>>,
      <<114, 101, 115, 112, 111, 110, 115, 101, 115>>,
      <<112, 114, 105, 109, 97, 114, 121>> }

NameIndex == <<105, 110, 100, 101, 120>>

NameResponses == <<114, 101, 115, 112, 111, 110, 115, 101, 115>>

NamePrimary == <<112, 114, 105, 109, 97, 114, 121>>

\* b":status"
StatusKey == <<58, 115, 116, 97, 116, 117, 115>>

VersionB2 == [tag |-> "VersionB2", a |-> <<>>]

Version1 == [tag |-> "Version1", a |-> <<>>]

Unknown(a) == [tag |-> "Unknown", a |-> a]

VersionBytes(v) ==
    IF v.tag = "VersionB2" THEN <<98, 50, 0, 0>>
    ELSE IF v.tag = "Version1" THEN <<49, 0, 0, 0>>
    ELSE v.a

(***************************************************************************)
(* http::Uri, as far as the codec uses it: a scheme, an authority and a    *)
(* path; Display writes scheme "://" authority path, with "/" for an empty *)
(* path; PartialEq compares scheme, authority and path(), where path() of  *)
(* an empty path is "/".                                                   *)
(***************************************************************************)
Uri(scheme, authority, path) == [scheme |-> scheme, authority |-> authority, path |-> path]

UriPath(u) == IF u.path = <<>> THEN <<47>> ELSE u.path

UriToString(u) == u.scheme \o <<58, 47, 47>> \o u.authority \o UriPath(u)

UriEq(u, v) ==
    /\ u.scheme = v.scheme
    /\ u.authority = v.authority
    /\ UriPath(u) = UriPath(v)

(***************************************************************************)
(* bundle.rs: Request, Response, Exchange, Bundle.  A HeaderMap is the     *)
(* sequence of its <<name, value>> entries in iteration order.             *)
(***************************************************************************)
Request(url) == [url |-> url, headers |-> <<>>]

Response(status, headers, body) == [status |-> status, headers |-> headers, body |-> body]

Exchange(request, response) == [request |-> request, response |-> response]

Bundle(version, primary_url, exchanges) ==
    [version |-> version, primary_url |-> primary_url, exchanges |-> exchanges]

\* http::HeaderValue::to_str: fails unless every byte is visible ASCII or a tab
IsVisibleAscii(b) == (b >= 32 /\ b < 127) \/ b = 9

HeaderValueToStr(value) ==
    IF \A i \in DOMAIN value : IsVisibleAscii(value[i]) THEN Ok(value) ELSE Err

(***************************************************************************)
(* encoder.rs: CountWrite, the writer that counts the bytes it passes on.  *)
(***************************************************************************)
CountWriteNew == [count |-> 0, inner |-> <<>>]

\* how much CountWrite::write adds to count for a buffer the inner Vec took whole
CountWriteAdvance(buf) == Len(buf)

CountWriteWrite(cw, buf) ==
    [count |-> cw.count + CountWriteAdvance(buf), inner |-> cw.inner \o buf]

\* Count::count: the count field, read through the serializer
Count(se) == se.count

(***************************************************************************)
(* encoder.rs: encode_headers.                                             *)
(***************************************************************************)
RECURSIVE EncodeHeadersLoop(_, _)
EncodeHeadersLoop(headers, map) ==
    IF headers = <<>> THEN Ok(map)
    ELSE Try(HeaderValueToStr(Head(headers)[2]), LAMBDA str :
             EncodeHeadersLoop(Tail(headers),
                               BTreeMapInsert(map, write_bytes(Head(headers)[1]),
                                              write_bytes(str))))

\* the ordered map encode_headers builds: :status first, then every header
HeadersMap(response) ==
    EncodeHeadersLoop(response.headers,
                      BTreeMapInsert(BTreeMapNew, write_bytes(StatusKey),
                                     write_bytes(ToDecimal(response.status))))

\* the entry count encode_headers declares in the map header
HeadersMapLen(map) == Len(map)

encode_headers(response) ==
    Try(HeadersMap(response), LAMBDA map :
        Ok(write_map(HeadersMapLen(map)) \o MapEntriesBytes(map)))

(***************************************************************************)
(* encoder.rs: encode_response_section.  The result is the section's bytes *)
(* and one ResponseLocation [url, offset, length] per exchange.            *)
(***************************************************************************)
\* the bytes of one element of the responses array
ResponseItem(headersBytes, body) ==
    write_array(2) \o write_bytes(headersBytes) \o write_bytes(body)

\* an offset counted from the end of the responses array header (one byte for
\* fewer than 24 exchanges) instead of from the first byte of the section
ResponseOffsetAfterHeader(se) == Count(se) - 1

\* the offset recorded for an exchange written when the serializer is se
ResponseOffset(se) == Count(se)

\* a length counted from the first byte of the section instead of from offset
ResponseLengthFromStart(se, offset) == Count(se)

\* the length recorded for an exchange written from offset, the serializer now se
ResponseLength(se, offset) == Count(se) - offset

RECURSIVE EncodeResponsesLoop(_, _, _)
EncodeResponsesLoop(exchanges, se, response_locations) ==
    IF exchanges = <<>> THEN Ok([bytes |-> se.inner, locations |-> response_locations])
    ELSE Try(encode_headers(Head(exchanges).response), LAMBDA hdrs :
             Let(CountWriteWrite(se, ResponseItem(hdrs, Head(exchanges).response.body)),
                 LAMBDA se2 :
                 EncodeResponsesLoop(
                     Tail(exchanges), se2,
                     Append(response_locations,
                            [url |-> Head(exchanges).request.url,
                             offset |-> ResponseOffset(se),
                             length |-> ResponseLength(se2, ResponseOffset(se))]))))

encode_response_section(exchanges) ==
    EncodeResponsesLoop(exchanges,
                        CountWriteWrite(CountWriteNew, write_array(Len(exchanges))),
                        <<>>)

(***************************************************************************)
(* encoder.rs: encode_index_section.                                       *)
(***************************************************************************)
IndexValue(loc) ==
    write_array(2) \o write_unsigned_integer(loc.offset) \o write_unsigned_integer(loc.length)

RECURSIVE IndexMapLoop(_, _)
IndexMapLoop(response_locations, map) ==
    IF response_locations = <<>> THEN map
    ELSE IndexMapLoop(Tail(response_locations),
                      BTreeMapInsert(map, write_text(Head(response_locations).url),
                                     IndexValue(Head(response_locations))))

\* the ordered map encode_index_section builds
IndexMap(response_locations) == IndexMapLoop(response_locations, BTreeMapNew)

\* the entry count encode_index_section declares in the map header
IndexMapLen(response_locations) == Len(response_locations)

encode_index_section(response_locations) ==
    write_map(IndexMapLen(response_locations))
        \o MapEntriesBytes(IndexMap(response_locations))

(***************************************************************************)
(* encoder.rs: encode_primary_url_section, encode_sections,                *)
(* encode_section_lengths.  A Section is [name, bytes].                    *)
(***************************************************************************)
encode_primary_url_section(url) == write_text(UriToString(url))

Section(name, bytes) == [name |-> name, bytes |-> bytes]

\* the primary section, pushed first when the bundle has a primary_url
PrimarySections(b) ==
    IF b.primary_url # None
    THEN <<Section(NamePrimary, encode_primary_url_section(b.primary_url[1]))>>
    ELSE <<>>

\* the sections pushed with the index before the primary section
SectionsIndexFirst(primary, index_section, response_section) ==
    <<index_section>> \o primary \o <<response_section>>

\* the order in which encode_sections pushes the sections it has built
SectionsInOrder(primary, index_section, response_section) ==
    primary \o <<index_section, response_section>>

encode_sections(b) ==
    Try(encode_response_section(b.exchanges), LAMBDA resp :
        Ok(SectionsInOrder(PrimarySections(b),
                           Section(NameIndex, encode_index_section(resp.locations)),
                           Section(NameResponses, resp.bytes))))

RECURSIVE SectionLengthsLoop(_)
SectionLengthsLoop(sections) ==
    IF sections = <<>> THEN <<>>
    ELSE write_text(Head(sections).name)
             \o write_unsigned_integer(Len(Head(sections).bytes))
             \o SectionLengthsLoop(Tail(sections))

\* a table whose array header declares one item per section instead of two
EncodeSectionLengthsOnePerSection(sections) ==
    write_array(Len(sections)) \o SectionLengthsLoop(sections)

encode_section_lengths(sections) ==
    write_array(Len(sections) * 2) \o SectionLengthsLoop(sections)

(***************************************************************************)
(* encoder.rs: Encoder::encode and encode_to_vec.                          *)
(***************************************************************************)
RECURSIVE SectionsBytes(_)
SectionsBytes(sections) ==
    IF sections = <<>> THEN <<>> ELSE Head(sections).bytes \o SectionsBytes(Tail(sections))

\* a trailing length that leaves out its own 8 bytes
BundleLenWithoutTrailer(se) == Count(se)

\* the value written as the trailing length when the serializer is se
BundleLen(se) == Count(se) + 8

\* the bytes of the trailing length
TrailingLength(se) == BE(BundleLen(se), 8)

\* the serializer after the array header, the magic and the version
EncodePreamble(b) ==
    CountWriteWrite(
        CountWriteWrite(
            CountWriteWrite(CountWriteNew, write_array(TOP_ARRAY_LEN)),
            write_bytes(HEADER_MAGIC_BYTES)),
        write_bytes(VersionBytes(b.version)))

\* the serializer after the section lengths, the sections array header and the sections
EncodeBody(se, sections) ==
    CountWriteWrite(
        CountWriteWrite(
            CountWriteWrite(se, write_bytes(encode_section_lengths(sections))),
            write_array(Len(sections))),
        SectionsBytes(sections))

EncoderEncode(b) ==
    Try(encode_sections(b), LAMBDA sections :
        Let(EncodeBody(EncodePreamble(b), sections), LAMBDA se :
            Ok(CountWriteWrite(se, TrailingLength(se)))))

encode_to_vec(b) == Try(EncoderEncode(b), LAMBDA se : Ok(se.inner))

(***************************************************************************)
(* cbor_event::de::Deserializer over a Cursor: every read takes the buffer *)
(* and the cursor position and gives Err or Ok of [v, pos], the value read *)
(* and the new position.  Indefinite-length strings are outside the inputs *)
(* modelled and are reported as Err.                                       *)
(***************************************************************************)
Read(v, pos) == Ok([v |-> v, pos |-> pos])

\* the bytes that follow the initial byte of a data item with this additional information
LenSize(info) ==
    IF info = 24 THEN 1 ELSE IF info = 25 THEN 2
    ELSE IF info = 26 THEN 4 ELSE IF info = 27 THEN 8 ELSE 0

\* cbor_len: the length argument of the data item at pos, as [len, indefinite]
CborLen(buf, pos) ==
    IF pos >= Len(buf) THEN Err
    ELSE Let(buf[pos + 1] % 32, LAMBDA info :
             IF info < 24 THEN Read([len |-> info, indefinite |-> FALSE], pos + 1)
             ELSE IF info = 31 THEN Read([len |-> 0, indefinite |-> TRUE], pos + 1)
             ELSE IF info > 27 THEN Err
             ELSE IF pos + 1 + LenSize(info) > Len(buf) THEN Err
             ELSE Read([len |-> FromBE(Slice(buf, pos + 1, pos + 1 + LenSize(info))),
                        indefinite |-> FALSE],
                       pos + 1 + LenSize(info)))

\* cbor_expect_type followed by cbor_len
CborHead(buf, pos, major) ==
    IF pos >= Len(buf) THEN Err
    ELSE IF buf[pos + 1] \div 32 # major THEN Err
    ELSE CborLen(buf, pos)

de_unsigned_integer(buf, pos) ==
    Try(CborHead(buf, pos, 0), LAMBDA h :
        IF h.v.indefinite THEN Err ELSE Read(h.v.len, h.pos))

de_bytes(buf, pos) ==
    Try(CborHead(buf, pos, 2), LAMBDA h :
        IF h.v.indefinite THEN Err
        ELSE IF h.pos + h.v.len > Len(buf) THEN Err
        ELSE Read(Slice(buf, h.pos, h.pos + h.v.len), h.pos + h.v.len))

\* the continuation bytes a UTF-8 lead byte asks for; 4 for a byte that cannot lead
Utf8Need(b) ==
    IF b < 128 THEN 0
    ELSE IF b >= 194 /\ b <= 223 THEN 1
    ELSE IF b >= 224 /\ b <= 239 THEN 2
    ELSE IF b >= 240 /\ b <= 244 THEN 3
    ELSE 4

\* String::from_utf8, exact for one- and two-byte sequences; longer sequences
\* are checked for their continuation bytes only
RECURSIVE Utf8Valid(_)
Utf8Valid(bs) ==
    IF bs = <<>> THEN TRUE
    ELSE Let(Utf8Need(Head(bs)), LAMBDA need :
             /\ need < 4
             /\ Len(bs) > need
             /\ \A i \in 2..(need + 1) : bs[i] >= 128 /\ bs[i] <= 191
             /\ Utf8Valid(SubSeq(bs, need + 2, Len(bs))))

de_text(buf, pos) ==
    Try(CborHead(buf, pos, 3), LAMBDA h :
        IF h.v.indefinite THEN Err
        ELSE IF h.pos + h.v.len > Len(buf) THEN Err
        ELSE IF ~Utf8Valid(Slice(buf, h.pos, h.pos + h.v.len)) THEN Err
        ELSE Read(Slice(buf, h.pos, h.pos + h.v.len), h.pos + h.v.len))

\* de.array() and de.map(): the Len read, definite or not
de_array(buf, pos) == CborHead(buf, pos, 4)

de_map(buf, pos) == CborHead(buf, pos, 5)

(***************************************************************************)
(* decoder.rs: read_array_len, read_magic_bytes, read_version.             *)
(***************************************************************************)
read_array_len(buf, pos) ==
    Try(de_array(buf, pos), LAMBDA h :
        IF h.v.indefinite THEN Err ELSE Read(h.v.len, h.pos))

\* a magic check that takes any byte string
ReadMagicBytesAnyValue(buf, pos) ==
    Try(de_bytes(buf, pos), LAMBDA magic : Read(<<>>, magic.pos))

read_magic_bytes(buf, pos) ==
    Try(de_bytes(buf, pos), LAMBDA magic :
        IF magic.v # HEADER_MAGIC_BYTES THEN Err ELSE Read(<<>>, magic.pos))

\* a classification that knows no version
ClassifyAsUnknown(version) == Unknown(version)

\* the Version a four-byte identifier stands for
ClassifyVersion(version) ==
    IF version = VersionBytes(Version1) THEN Version1
    ELSE IF version = VersionBytes(VersionB2) THEN VersionB2
    ELSE Unknown(version)

read_version(buf, pos) ==
    Try(de_bytes(buf, pos), LAMBDA bytes :
        IF Len(bytes.v) # VERSION_BYTES_LEN THEN Err
        ELSE Read(ClassifyVersion(bytes.v), bytes.pos))

(***************************************************************************)
(* decoder.rs: read_section_offsets and read_section_offsets_cbor.  A      *)
(* SectionOffset is [name, offset, length].                                *)
(***************************************************************************)
SectionLengthsLimit == 8192

RECURSIVE SectionOffsetsLoop(_, _, _, _, _, _)
SectionOffsetsLoop(buf, pos, k, offset, seen_names, section_offsets) ==
    IF k = 0 THEN Ok(section_offsets)
    ELSE Try(de_text(buf, pos), LAMBDA name :
             IF name.v \in seen_names THEN Err
             ELSE Try(de_unsigned_integer(buf, name.pos), LAMBDA length :
                      SectionOffsetsLoop(
                          buf, length.pos, k - 1, offset + length.v,
                          seen_names \cup {name.v},
                          Append(section_offsets,
                                 [name |-> name.v, offset |-> offset,
                                  length |-> length.v]))))

\* what read_section_offsets_cbor makes of the offset it is given, before the loop:
\* it adds the position of the inner decoder after the section-lengths array header
SectionsAnchor(offset, innerPos) == offset + innerPos

\* checks that ask for a section only, whatever the name of the last one
CheckSectionOffsetsNotEmpty(section_offsets) ==
    IF section_offsets = <<>> THEN Err ELSE Ok(section_offsets)

\* the checks after the loop: not empty, and the last section is "responses"
CheckSectionOffsets(section_offsets) ==
    IF section_offsets = <<>> THEN Err
    ELSE IF section_offsets[Len(section_offsets)].name # NameResponses THEN Err
    ELSE Ok(section_offsets)

read_section_offsets_cbor(buf, offset) ==
    Try(read_array_len(buf, 0), LAMBDA n :
        Try(SectionOffsetsLoop(buf, n.pos, n.v \div 2,
                               SectionsAnchor(offset, n.pos), {}, <<>>),
            LAMBDA section_offsets : CheckSectionOffsets(section_offsets)))

\* read_section_offsets with a limit that lets a byte string of 8192 bytes pass
ReadSectionOffsetsInclusive(buf, pos) ==
    Try(de_bytes(buf, pos), LAMBDA bytes :
        IF ~(Len(bytes.v) <= SectionLengthsLimit) THEN Err
        ELSE Try(read_section_offsets_cbor(bytes.v, bytes.pos), LAMBDA section_offsets :
                 Read(section_offsets, bytes.pos)))

read_section_offsets(buf, pos) ==
    Try(de_bytes(buf, pos), LAMBDA bytes :
        IF ~(Len(bytes.v) < SectionLengthsLimit) THEN Err
        ELSE Try(read_section_offsets_cbor(bytes.v, bytes.pos), LAMBDA section_offsets :
                 Read(section_offsets, bytes.pos)))

\* Metadata is [version, section_offsets]
read_metadata(buf, pos) ==
    Try(read_array_len(buf, pos), LAMBDA n :
        IF n.v # TOP_ARRAY_LEN THEN Err
        ELSE Try(read_magic_bytes(buf, n.pos), LAMBDA magic :
                 Try(read_version(buf, magic.pos), LAMBDA version :
                     Try(read_section_offsets(buf, version.pos), LAMBDA so :
                         Read([version |-> version.v, section_offsets |-> so.v],
                              so.pos)))))

(***************************************************************************)
(* http: Uri::from_str for the shapes the model uses, StatusCode::from_str,*)
(* HeaderName::from_lowercase, HeaderValue::from_str, HeaderMap::insert.   *)
(***************************************************************************)
\* the least member of a non-empty set of numbers
Least(S) == CHOOSE i \in S : \A j \in S : i <= j

\* the least i with s[i..i+2] = "://", or 0
SchemeEnd(s) ==
    Let({i \in 1..(Len(s) - 2) : s[i] = 58 /\ s[i + 1] = 47 /\ s[i + 2] = 47},
        LAMBDA hits : IF hits = {} THEN 0 ELSE Least(hits))

\* the position of the first "/" of rest, or one past its end
AuthorityEnd(rest) ==
    Let({i \in DOMAIN rest : rest[i] = 47},
        LAMBDA slashes : IF slashes = {} THEN Len(rest) + 1 ELSE Least(slashes))

\* the authority and the path of what follows "://"
ParseHierPart(scheme, rest) ==
    Let(AuthorityEnd(rest), LAMBDA p :
        IF p = 1 THEN Err
        ELSE Ok(Uri(scheme, SubSeq(rest, 1, p - 1), SubSeq(rest, p, Len(rest)))))

ParseUri(s) ==
    IF s = <<>> THEN Err
    ELSE Let(SchemeEnd(s), LAMBDA k :
             IF k = 0 THEN
                 IF s[1] = 47 THEN Ok(Uri(<<>>, <<>>, s)) ELSE Ok(Uri(<<>>, s, <<>>))
             ELSE IF k = 1 THEN Err
             ELSE ParseHierPart(SubSeq(s, 1, k - 1), SubSeq(s, k + 3, Len(s))))

IsDigit(b) == b >= 48 /\ b <= 57

\* three ASCII digits, the first not 0
ParseStatus(value) ==
    IF Len(value) # 3 THEN Err
    ELSE IF ~(\A i \in 1..3 : IsDigit(value[i])) \/ value[1] = 48 THEN Err
    ELSE Ok((value[1] - 48) * 100 + (value[2] - 48) * 10 + (value[3] - 48))

\* the bytes HeaderName::from_lowercase accepts: lowercase letters, digits and
\* the token punctuation ! # $ % & ' * + - . ^ _ ` | ~
IsLowerTokenByte(b) ==
    \/ b >= 97 /\ b <= 122
    \/ IsDigit(b)
    \/ b \in {33, 35, 36, 37, 38, 39, 42, 43, 45, 46, 94, 95, 96, 124, 126}

\* a header name check that takes upper-case letters and bytes above 127 too
HeaderNameAnyCase(name) ==
    IF name = <<>> \/ (\E i \in DOMAIN name : name[i] <= 32 \/ name[i] = 127) THEN Err
    ELSE Ok(name)

HeaderNameFromLowercase(name) ==
    IF name = <<>> \/ ~(\A i \in DOMAIN name : IsLowerTokenByte(name[i])) THEN Err
    ELSE Ok(name)

HeaderValueFromStr(value) ==
    IF \A i \in DOMAIN value : IsVisibleAscii(value[i]) THEN Ok(value) ELSE Err

\* headers with the entry at position first holding <<name, value>> and
\* every other entry of that name gone
RECURSIVE ReplaceEntry(_, _, _, _)
ReplaceEntry(headers, i, name, value) ==
    IF headers = <<>> THEN <<>>
    ELSE IF Head(headers)[1] # name
         THEN <<Head(headers)>> \o ReplaceEntry(Tail(headers), i, name, value)
    ELSE IF i = 0
         THEN << <<name, value>> >> \o ReplaceEntry(Tail(headers), 1, name, value)
    ELSE ReplaceEntry(Tail(headers), i, name, value)

\* HeaderMap::insert: the entry of the name now holds this value alone
HeaderMapInsert(headers, name, value) ==
    IF \E i \in DOMAIN headers : headers[i][1] = name
    THEN ReplaceEntry(headers, 0, name, value)
    ELSE Append(headers, <<name, value>>)

(***************************************************************************)
(* decoder.rs: new_decoder_from_range, read_primary_url, read_index.       *)
(***************************************************************************)
\* &buf[start..end] panics unless start <= end <= buf.len()
new_decoder_from_range(buf, start, end) ==
    IF start > end \/ end > Len(buf) THEN Panic ELSE Ok(Slice(buf, start, end))

read_primary_url(buf) == Try(de_text(buf, 0), LAMBDA text : ParseUri(text.v))

\* decoder.rs ResponseLocation::new
ResponseLocationNew(responses_section_offset, offset, length) ==
    [offset |-> responses_section_offset + offset, length |-> length]

RequestEntry(url, response_location) ==
    [request |-> Request(url), response_location |-> response_location]

RECURSIVE ReadIndexLoop(_, _, _, _, _)
ReadIndexLoop(buf, pos, k, responses_section_offset, requests) ==
    IF k = 0 THEN Ok(requests)
    ELSE Try(de_text(buf, pos), LAMBDA url :
         Try(read_array_len(buf, url.pos), LAMBDA n :
             IF n.v # 2 THEN Err
             ELSE Try(de_unsigned_integer(buf, n.pos), LAMBDA offset :
                  Try(de_unsigned_integer(buf, offset.pos), LAMBDA length :
                      ReadIndexLoop(
                          buf, length.pos, k - 1, responses_section_offset,
                          Append(requests,
                                 RequestEntry(url.v,
                                              ResponseLocationNew(responses_section_offset,
                                                                  offset.v, length.v))))))))

read_index(buf, responses_section_offset) ==
    Try(de_map(buf, 0), LAMBDA m :
        IF m.v.indefinite THEN Err
        ELSE ReadIndexLoop(buf, m.pos, m.v.len, responses_section_offset, <<>>))

(***************************************************************************)
(* decoder.rs: read_sections.  The result is [requests, primary_url].      *)
(***************************************************************************)
RECURSIVE ReadSectionsLoop(_, _, _, _, _)
ReadSectionsLoop(buf, section_offsets, responses_section_offset, requests, primary_url) ==
    IF section_offsets = <<>>
    THEN Ok([requests |-> requests, primary_url |-> primary_url])
    ELSE IF Head(section_offsets).name \notin KNOWN_SECTION_NAMES
    THEN ReadSectionsLoop(buf, Tail(section_offsets), responses_section_offset,
                          requests, primary_url)
    ELSE Try(new_decoder_from_range(buf, Head(section_offsets).offset,
                                    Head(section_offsets).offset
                                        + Head(section_offsets).length),
             LAMBDA section_decoder :
             IF Head(section_offsets).name = NameIndex THEN
                 Try(read_index(section_decoder, responses_section_offset), LAMBDA r :
                     ReadSectionsLoop(buf, Tail(section_offsets),
                                      responses_section_offset, r, primary_url))
             ELSE IF Head(section_offsets).name = NamePrimary THEN
                 Try(read_primary_url(section_decoder), LAMBDA u :
                     ReadSectionsLoop(buf, Tail(section_offsets),
                                      responses_section_offset, requests, Some(u)))
             ELSE ReadSectionsLoop(buf, Tail(section_offsets), responses_section_offset,
                                   requests, primary_url))

\* read_sections without the comparison of the array length with the table
ReadSectionsUncounted(buf, pos, section_offsets) ==
    Try(read_array_len(buf, pos), LAMBDA n :
        ReadSectionsLoop(buf, section_offsets,
                         section_offsets[Len(section_offsets)].offset, <<>>, None))

read_sections(buf, pos, section_offsets) ==
    Try(read_array_len(buf, pos), LAMBDA n :
        IF n.v # Len(section_offsets) THEN Err
        ELSE ReadSectionsLoop(buf, section_offsets,
                              section_offsets[Len(section_offsets)].offset, <<>>, None))

(***************************************************************************)
(* decoder.rs: read_headers_cbor, read_response, read_responses.           *)
(***************************************************************************)
\* a loop in which a later :status entry replaces an earlier one
RECURSIVE ReadHeadersLoopLastStatus(_, _, _, _, _)
ReadHeadersLoopLastStatus(buf, pos, k, headers, status) ==
    IF k = 0
    THEN (IF status = None THEN Err ELSE Ok([status |-> status[1], headers |-> headers]))
    ELSE Try(de_bytes(buf, pos), LAMBDA name :
         IF ~Utf8Valid(name.v) THEN Err
         ELSE Try(de_bytes(buf, name.pos), LAMBDA value :
              IF ~Utf8Valid(value.v) THEN Err
              ELSE IF name.v # <<>> /\ name.v[1] = 58 THEN
                  IF name.v # StatusKey THEN Err
                  ELSE Try(ParseStatus(value.v), LAMBDA st :
                           ReadHeadersLoopLastStatus(buf, value.pos, k - 1, headers,
                                                     Some(st)))
              ELSE Try(HeaderNameFromLowercase(name.v), LAMBDA hn :
                   Try(HeaderValueFromStr(value.v), LAMBDA hv :
                       ReadHeadersLoopLastStatus(buf, value.pos, k - 1,
                                                 HeaderMapInsert(headers, hn, hv),
                                                 status)))))

RECURSIVE ReadHeadersLoop(_, _, _, _, _)
ReadHeadersLoop(buf, pos, k, headers, status) ==
    IF k = 0
    THEN (IF status = None THEN Err ELSE Ok([status |-> status[1], headers |-> headers]))
    ELSE Try(de_bytes(buf, pos), LAMBDA name :
         IF ~Utf8Valid(name.v) THEN Err
         ELSE Try(de_bytes(buf, name.pos), LAMBDA value :
              IF ~Utf8Valid(value.v) THEN Err
              ELSE IF name.v # <<>> /\ name.v[1] = 58 THEN
                  IF name.v # StatusKey THEN Err
                  ELSE IF status # None THEN Err
                  ELSE Try(ParseStatus(value.v), LAMBDA st :
                           ReadHeadersLoop(buf, value.pos, k - 1, headers, Some(st)))
              ELSE Try(HeaderNameFromLowercase(name.v), LAMBDA hn :
                   Try(HeaderValueFromStr(value.v), LAMBDA hv :
                       ReadHeadersLoop(buf, value.pos, k - 1,
                                       HeaderMapInsert(headers, hn, hv), status)))))

read_headers_cbor(buf) ==
    Try(de_map(buf, 0), LAMBDA m :
        IF m.v.indefinite THEN Err
        ELSE ReadHeadersLoop(buf, m.pos, m.v.len, <<>>, None))

read_response(buf) ==
    Try(read_array_len(buf, 0), LAMBDA n :
        IF n.v # 2 THEN Err
        ELSE Try(de_bytes(buf, n.pos), LAMBDA headers :
             Try(read_headers_cbor(headers.v), LAMBDA sh :
             Try(de_bytes(buf, headers.pos), LAMBDA body :
                 Ok(Response(sh.status, sh.headers, body.v))))))

RECURSIVE ReadResponsesLoop(_, _, _)
ReadResponsesLoop(buf, requests, exchanges) ==
    IF requests = <<>> THEN Ok(exchanges)
    ELSE Try(new_decoder_from_range(
                 buf, Head(requests).response_location.offset,
                 Head(requests).response_location.offset
                     + Head(requests).response_location.length),
             LAMBDA d :
             Try(read_response(d), LAMBDA response :
                 ReadResponsesLoop(buf, Tail(requests),
                                   Append(exchanges,
                                          Exchange(Head(requests).request, response)))))

read_responses(buf, requests) == ReadResponsesLoop(buf, requests, <<>>)

(***************************************************************************)
(* decoder.rs: Decoder::decode and parse.                                  *)
(***************************************************************************)
decode(buf) ==
    Try(read_metadata(buf, 0), LAMBDA metadata :
        Try(read_sections(buf, metadata.pos, metadata.v.section_offsets), LAMBDA s :
            Try(read_responses(buf, s.requests), LAMBDA exchanges :
                Ok(Bundle(metadata.v.version, s.primary_url, exchanges)))))

parse(bytes) == decode(bytes)

(***************************************************************************)
(* builder.rs: Builder.                                                    *)
(***************************************************************************)
BuilderNew == [version |-> None, primary_url |-> None, manifest |-> None, exchanges |-> <<>>]

\* a version setter that keeps the first version it was given
BuilderVersionKeepFirst(b, version) ==
    IF b.version = None THEN [b EXCEPT !.version = Some(version)] ELSE b

BuilderVersion(b, version) == [b EXCEPT !.version = Some(version)]

BuilderPrimaryUrl(b, primary_url) == [b EXCEPT !.primary_url = Some(primary_url)]

BuilderManifest(b, manifest) == [b EXCEPT !.manifest = Some(manifest)]

BuilderExchange(b, exchange) == [b EXCEPT !.exchanges = Append(@, exchange)]

BuilderBuild(b) ==
    IF b.version = None THEN Err
    ELSE Ok(Bundle(b.version[1], b.primary_url, b.exchanges))

(***************************************************************************)
(* The inputs the model draws from.                                        *)
(***************************************************************************)
Versions == {VersionB2, Version1, Unknown(<<0, 0, 0, 1>>)}

\* h://e (empty path) and h://e/i
Uris == {Uri(<<104>>, <<101>>, <<>>), Uri(<<104>>, <<101>>, <<47, 105>>)}

\* h://m/
ManifestUris == {Uri(<<104>>, <<109>>, <<47>>)}

\* "a" 200 without headers and with an empty body
ExA == Exchange(Request(<<97>>), Response(200, <<>>, <<>>))

\* "b" 200 with x: 1
ExB == Exchange(Request(<<98>>), Response(200, << <<<<120>>, <<49>>>> >>, <<1, 2>>))

\* "aa" 404 with x: 1 and c: 2, inserted in that order
ExAA == Exchange(Request(<<97, 97>>),
                 Response(404, << <<<<120>>, <<49>>>>, <<<<99>>, <<50>>>> >>, <<3>>))

\* "a" again, 301 with x: 1 and x: 2 (a repeated header name)
ExA2 == Exchange(Request(<<97>>),
                 Response(301, << <<<<120>>, <<49>>>>, <<<<120>>, <<50>>>> >>, <<>>))

\* "b" again, with a header value that is not visible ASCII
ExB2 == Exchange(Request(<<98>>), Response(200, << <<<<120>>, <<128>>>> >>, <<>>))

Exchanges == {ExA, ExB, ExAA, ExA2, ExB2}

(***************************************************************************)
(* The state machine: the builder calls in any order, then build, encode,  *)
(* from_bytes on the encoded bytes, and encode on the parsed bundle.       *)
(***************************************************************************)
NotYet == [kind |-> "none", val |-> <<>>]

Init ==
    /\ builder = BuilderNew
    /\ hist = [version |-> None, primary_url |-> None, exchanges |-> <<>>]
    /\ bundle = NotYet
    /\ encoded = NotYet
    /\ input = <<>>
    /\ parsed = NotYet
    /\ reencoded = NotYet
    /\ call = NotYet
    /\ ret = NotYet
    /\ pc = "building"

CallVersion ==
    /\ pc = "building"
    /\ \E v \in Versions :
          /\ builder' = BuilderVersion(builder, v)
          /\ hist' = [hist EXCEPT !.version = Some(v)]
    /\ UNCHANGED <<call, ret, bundle, encoded, input, parsed, reencoded, pc>>

CallPrimaryUrl ==
    /\ pc = "building"
    /\ \E u \in Uris :
          /\ builder' = BuilderPrimaryUrl(builder, u)
          /\ hist' = [hist EXCEPT !.primary_url = Some(u)]
    /\ UNCHANGED <<call, ret, bundle, encoded, input, parsed, reencoded, pc>>

CallManifest ==
    /\ pc = "building"
    /\ \E u \in ManifestUris : builder' = BuilderManifest(builder, u)
    /\ UNCHANGED <<call, ret, hist, bundle, encoded, input, parsed, reencoded, pc>>

CallExchange ==
    /\ pc = "building"
    /\ Len(hist.exchanges) < MaxExchanges
    /\ \E e \in Exchanges :
          /\ builder' = BuilderExchange(builder, e)
          /\ hist' = [hist EXCEPT !.exchanges = Append(@, e)]
    /\ UNCHANGED <<call, ret, bundle, encoded, input, parsed, reencoded, pc>>

CallBuild ==
    /\ pc = "building"
    /\ bundle' = BuilderBuild(builder)
    /\ pc' = IF IsOk(bundle') THEN "built" ELSE "build_failed"
    /\ builder' = BuilderNew   \* build(self) consumes the builder
    /\ UNCHANGED <<call, ret, hist, encoded, input, parsed, reencoded>>

CallEncode ==
    /\ pc = "built"
    /\ encoded' = encode_to_vec(bundle.val)
    /\ pc' = "encoded"
    /\ UNCHANGED <<call, ret, builder, hist, bundle, input, parsed, reencoded>>

CallFromBytes ==
    /\ pc = "encoded"
    /\ IsOk(encoded)
    /\ input' = encoded.val
    /\ parsed' = parse(input')
    /\ pc' = "parsed"
    /\ UNCHANGED <<call, ret, builder, hist, bundle, encoded, reencoded>>

CallReencode ==
    /\ pc = "parsed"
    /\ IsOk(parsed)
    /\ reencoded' = encode_to_vec(parsed.val)
    /\ pc' = "reencoded"
    /\ UNCHANGED <<call, ret, builder, hist, bundle, encoded, input, parsed>>

Next ==
    \/ CallVersion
    \/ CallPrimaryUrl
    \/ CallManifest
    \/ CallExchange
    \/ CallBuild
    \/ CallEncode
    \/ CallFromBytes
    \/ CallReencode

Spec == Init /\ [][Next]_vars

(***************************************************************************)
(* A second specification: from_bytes may also be handed a strict prefix   *)
(* of the encoded bundle.                                                  *)
(***************************************************************************)
CallFromBytesPrefix ==
    /\ pc = "encoded"
    /\ IsOk(encoded)
    /\ \E n \in 0..(Len(encoded.val) - 1) : input' = SubSeq(encoded.val, 1, n)
    /\ parsed' = parse(input')
    /\ pc' = "parsed_prefix"
    /\ UNCHANGED <<call, ret, builder, hist, bundle, encoded, reencoded>>

NextTrunc == Next \/ CallFromBytesPrefix

SpecTrunc == Init /\ [][NextTrunc]_vars

(***************************************************************************)
(* Hand-made decoder inputs.  A raw bundle is written from a version byte  *)
(* string and a list of sections [name, bytes] with the writes of the      *)
(* encoder, but nothing is sorted, counted again or left out, so that the  *)
(* decoder can be handed what the encoder never writes.                     *)
(***************************************************************************)
\* a headers map written pair by pair as given; each pair is <<name, value>>
RECURSIVE RawPairs(_)
RawPairs(pairs) ==
    IF pairs = <<>> THEN <<>>
    ELSE write_bytes(Head(pairs)[1]) \o write_bytes(Head(pairs)[2]) \o RawPairs(Tail(pairs))

RawHeaders(pairs) == write_map(Len(pairs)) \o RawPairs(pairs)

\* one element of the responses array, from [url, headers, body]
RawItem(r) == ResponseItem(RawHeaders(r.headers), r.body)

RECURSIVE RawItems(_)
RawItems(rs) == IF rs = <<>> THEN <<>> ELSE RawItem(Head(rs)) \o RawItems(Tail(rs))

RawResponses(rs) == write_array(Len(rs)) \o RawItems(rs)

\* the index values <<offset, length>> that locate the elements of rs, the
\* first of them at offset
RECURSIVE RawLocations(_, _)
RawLocations(rs, offset) ==
    IF rs = <<>> THEN <<>>
    ELSE << <<offset, Len(RawItem(Head(rs)))>> >>
             \o RawLocations(Tail(rs), offset + Len(RawItem(Head(rs))))

RECURSIVE RawUints(_)
RawUints(ns) ==
    IF ns = <<>> THEN <<>> ELSE write_unsigned_integer(Head(ns)) \o RawUints(Tail(ns))

\* the index pairs of the urls of rs with the arrays values[i] as their values
RECURSIVE RawIndexPairs(_, _)
RawIndexPairs(rs, values) ==
    IF rs = <<>> THEN <<>>
    ELSE write_text(Head(rs).url) \o write_array(Len(Head(values)))
             \o RawUints(Head(values)) \o RawIndexPairs(Tail(rs), Tail(values))

RawIndex(rs, values) == write_map(Len(rs)) \o RawIndexPairs(rs, values)

\* everything up to and including the section-lengths byte string
RawHead(version, sections) ==
    write_array(TOP_ARRAY_LEN) \o write_bytes(HEADER_MAGIC_BYTES) \o write_bytes(version)
        \o write_bytes(encode_section_lengths(sections))

RawBody(version, sections) ==
    RawHead(version, sections) \o write_array(Len(sections)) \o SectionsBytes(sections)

RawBundle(version, sections) ==
    RawBody(version, sections) \o BE(Len(RawBody(version, sections)) + 8, 8)

\* the sections of a bundle with the responses rs, the index values given,
\* the primary url text given (or none) and extra sections before the index
RawSections(primary, extra, rs, values) ==
    (IF primary = None THEN <<>> ELSE <<Section(NamePrimary, write_text(primary[1]))>>)
        \o extra
        \o <<Section(NameIndex, RawIndex(rs, values)),
             Section(NameResponses, RawResponses(rs))>>

\* a well-formed bundle: every index value locates its response
RawWellFormed(version, primary, extra, rs) ==
    RawBundle(version, RawSections(primary, extra, rs, RawLocations(rs, 1)))

(***************************************************************************)
(* The inputs of the hand-made bundles.                                    *)
(***************************************************************************)
\* the most sections put before the index of a hand-made bundle
MaxExtraSections == 10

StatusPair(digits) == <<StatusKey, digits>>

\* "a": 200, no header, empty body
RawA == [url |-> <<97>>, headers |-> <<StatusPair(<<50, 48, 48>>)>>, body |-> <<>>]

\* "b": 404 with x: 1 and a body of two bytes
RawB == [url |-> <<98>>,
         headers |-> <<StatusPair(<<52, 48, 52>>), <<<<120>>, <<49>>>> >>,
         body |-> <<1, 2>>]

RawResponseLists == {<<>>, <<RawA>>, <<RawA, RawB>>}

\* none, or "h://e/i"
RawPrimaries == {None, Some(<<104, 58, 47, 47, 101, 47, 105>>)}

\* version byte strings of 0, 3, 4 and 5 bytes
RawVersions ==
    {<<>>, <<98, 50, 0>>, <<98, 50, 0, 0>>, <<49, 0, 0, 0>>, <<0, 0, 0, 1>>,
     <<98, 49, 0, 0>>, <<49, 0, 0, 0, 0>>}

\* the i-th section of an unrecognised name: "s0", "s1", ... holding the
\* CBOR byte string of i % 3 zero bytes
UnknownSection(i) ==
    Section(<<115, 48 + i>>, write_bytes([j \in 1..(i % 3) |-> 0]))

UnknownSections(n) == [i \in 1..n |-> UnknownSection(i - 1)]

NameSignatures == <<115, 105, 103, 110, 97, 116, 117, 114, 101, 115>>

NameCritical == <<99, 114, 105, 116, 105, 99, 97, 108>>

\* a signatures section: [authorities, vouched-subsets], both empty
SignaturesSection == Section(NameSignatures, write_array(2) \o write_array(0) \o write_array(0))

\* a critical section that lists the section names in names
RECURSIVE RawTexts(_)
RawTexts(names) ==
    IF names = <<>> THEN <<>> ELSE write_text(Head(names)) \o RawTexts(Tail(names))

CriticalSection(names) == Section(NameCritical, write_array(Len(names)) \o RawTexts(names))

\* the lists of sections put before the index
ExtraSectionLists ==
    {UnknownSections(n) : n \in 0..MaxExtraSections}
        \cup {<<SignaturesSection>>,
              <<CriticalSection(<<>>)>>,
              <<CriticalSection(<<NameIndex>>)>>,
              <<CriticalSection(<<<<115, 48>>>>)>>,
              <<UnknownSection(0), CriticalSection(<<<<115, 48>>>>)>>}

\* header names: x, x-y, X, Content-Type, e-acute (UTF-8), 0xff, empty,
\* :status, :path, a name with a space
RawHeaderNames ==
    {<<120>>, <<120, 45, 121>>, <<88>>,
     <<67, 111, 110, 116, 101, 110, 116, 45, 84, 121, 112, 101>>,
     <<195, 169>>, <<255>>, <<>>, StatusKey, <<58, 112, 97, 116, 104>>, <<120, 32>>}

\* what is done to the index value <<offset, length>> of the last response
IndexDamages ==
    {"none", "one_element", "three_elements", "variants", "past_section",
     "past_buffer", "offset_past_buffer", "short"}

\* the index value after the damage; room bytes lie between the end of the
\* responses section and the end of the input
DamagedValue(value, damage, room) ==
    CASE damage = "none" -> value
      [] damage = "one_element" -> <<value[1]>>
      [] damage = "three_elements" -> <<value[1], value[2], 0>>
      [] damage = "variants" -> <<0, value[1], value[2]>>
      [] damage = "past_section" -> <<value[1], value[2] + 1>>
      [] damage = "past_buffer" -> <<value[1], value[2] + room + 1>>
      [] damage = "offset_past_buffer" -> <<value[1] + value[2] + room + 1, 0>>
      [] damage = "short" -> <<value[1], value[2] - 1>>

\* the values of RawLocations with the last one damaged
DamageLast(values, damage, room) ==
    [i \in DOMAIN values |->
        IF i = Len(values) THEN DamagedValue(values[i], damage, room) ELSE values[i]]

(***************************************************************************)
(* A third specification: from_bytes is handed hand-made bundles.          *)
(***************************************************************************)
InitDecode ==
    /\ builder = BuilderNew
    /\ hist = [version |-> None, primary_url |-> None, exchanges |-> <<>>]
    /\ bundle = NotYet
    /\ encoded = NotYet
    /\ input = <<>>
    /\ parsed = NotYet
    /\ reencoded = NotYet
    /\ call = NotYet
    /\ ret = NotYet
    /\ pc = "idle"

\* from_bytes of input' has been called for the reason op
Decoded(op) ==
    /\ pc = "idle"
    /\ pc' = op
    /\ parsed' = parse(input')
    /\ UNCHANGED <<builder, hist, bundle, encoded, reencoded, ret>>

\* a well-formed bundle with a version byte string of any length
DecodeVersion ==
    /\ \E v \in RawVersions, p \in RawPrimaries, rs \in RawResponseLists :
          /\ call' = [version |-> v, primary |-> p, responses |-> rs]
          /\ input' = RawWellFormed(v, p, <<>>, rs)
    /\ Decoded("version")

\* a well-formed bundle with more sections before the index
DecodeSections ==
    /\ \E extra \in ExtraSectionLists, p \in RawPrimaries, rs \in RawResponseLists :
          /\ call' = [version |-> VersionBytes(VersionB2), primary |-> p,
                      responses |-> rs, extra |-> extra]
          /\ input' = RawWellFormed(VersionBytes(VersionB2), p, extra, rs)
    /\ Decoded("sections")

\* a well-formed bundle whose last response has x: 1 and one more header, of value 2
DecodeHeaders ==
    /\ \E name \in RawHeaderNames, p \in RawPrimaries, rs \in RawResponseLists :
          /\ call' = [version |-> VersionBytes(VersionB2), primary |-> p,
                      responses |-> Append(rs, [RawB EXCEPT !.url = <<99>>,
                                                    !.headers = Append(@, <<name, <<50>>>>)]),
                      name |-> name]
          /\ input' = RawWellFormed(VersionBytes(VersionB2), p, <<>>, call'.responses)
    /\ Decoded("headers")

\* a bundle whose last index value is damaged
DecodeIndex ==
    /\ \E damage \in IndexDamages, p \in RawPrimaries,
          rs \in RawResponseLists \ {<<>>} :
          /\ call' = [version |-> VersionBytes(VersionB2), primary |-> p,
                      responses |-> rs, damage |-> damage,
                      values |-> DamageLast(RawLocations(rs, 1), damage, 8)]
          /\ input' = RawBundle(VersionBytes(VersionB2),
                                RawSections(p, <<>>, rs, call'.values))
    /\ Decoded("index")

NextDecode ==
    \/ DecodeVersion
    \/ DecodeSections
    \/ DecodeHeaders
    \/ DecodeIndex

SpecDecode == InitDecode /\ [][NextDecode]_vars

(***************************************************************************)
(* Hand-made bundles whose frame is free: the length of the top-level      *)
(* array, the magic, the section-lengths byte string, the length of the    *)
(* sections array and what follows the last section are chosen apart from  *)
(* the sections themselves.                                                *)
(***************************************************************************)
\* everything up to the end of the last section
RawFrame(top, magic, version, blob, count, sections) ==
    write_array(top) \o write_bytes(magic) \o write_bytes(version) \o write_bytes(blob)
        \o write_array(count) \o SectionsBytes(sections)

\* the trailing length the encoder would write after body
RawTrailer(body) == BE(Len(body) + 8, 8)

\* the items of a section-lengths array, from entries [name, length]
RECURSIVE RawTablePairs(_)
RawTablePairs(entries) ==
    IF entries = <<>> THEN <<>>
    ELSE write_text(Head(entries).name) \o write_unsigned_integer(Head(entries).length)
             \o RawTablePairs(Tail(entries))

RawTable(entries) == write_array(2 * Len(entries)) \o RawTablePairs(entries)

\* the entries that describe the sections
EntriesOf(sections) ==
    [i \in DOMAIN sections |-> [name |-> sections[i].name, length |-> Len(sections[i].bytes)]]

\* n zero bytes
Zeros(n) == [j \in 1..n |-> 0]

\* blob followed by zero bytes up to the length size
PadTo(blob, size) == blob \o Zeros(size - Len(blob))

\* the primary url text of the hand-made sections: "h://e/i"
RawPrimaryText == <<104, 58, 47, 47, 101, 47, 105>>

\* a well-formed section of the name given, for the responses rs
SectionNamed(name, rs) ==
    IF name = NamePrimary THEN Section(name, write_text(RawPrimaryText))
    ELSE IF name = NameIndex THEN Section(name, RawIndex(rs, RawLocations(rs, 1)))
    ELSE IF name = NameResponses THEN Section(name, RawResponses(rs))
    ELSE Section(name, UnknownSection(0).bytes)

SectionsNamed(names, rs) == [i \in DOMAIN names |-> SectionNamed(names[i], rs)]

\* a bundle with the frame of the encoder around the sections
RawFramed(top, magic, blob, count, sections) ==
    RawFrame(top, magic, VersionBytes(VersionB2), blob, count, sections)
        \o RawTrailer(RawFrame(top, magic, VersionBytes(VersionB2), blob, count, sections))

(***************************************************************************)
(* The inputs of the bundles with a free frame.                            *)
(***************************************************************************)
\* the most entries of a hand-made section-lengths table
MaxTableLen == 4

\* the most entries of a hand-made headers map
MaxHeaderPairs == 3

TableNameLists ==
    UNION {[1..n -> {NamePrimary, NameIndex, NameResponses, UnknownSection(0).name}] :
               n \in 0..MaxTableLen}

\* the lengths given to the sections array of a bundle of two or three sections
SectionCounts == 0..4

\* the lengths in bytes given to the section-lengths byte string; 0 leaves
\* it as it is
BlobSizes == {0, 4096, 8191, 8192, 8193}

TopArrayLens == {0, 4, 5, 6}

\* the magic with byte i turned over
CorruptMagic(i) == [HEADER_MAGIC_BYTES EXCEPT ![i] = 255 - @]

\* the magic, the magic with one byte corrupted, a byte short, a byte long, empty
MagicValues ==
    {HEADER_MAGIC_BYTES, SubSeq(HEADER_MAGIC_BYTES, 1, 7), Append(HEADER_MAGIC_BYTES, 0), <<>>}
        \cup {CorruptMagic(i) : i \in 1..8}

\* entries of a headers map: :status 200, :status 404, :status 20, :status
\* 0200, :path /, x: 1, y: 2
HeaderPairs ==
    {StatusPair(<<50, 48, 48>>), StatusPair(<<52, 48, 52>>), StatusPair(<<50, 48>>),
     StatusPair(<<48, 50, 48, 48>>), <<<<58, 112, 97, 116, 104>>, <<47>>>>,
     <<<<120>>, <<49>>>>, <<<<121>>, <<50>>>>}

HeaderPairLists == UNION {[1..n -> HeaderPairs] : n \in 0..MaxHeaderPairs}

\* where the last index value points: at its response, one byte further, or
\* at what follows the responses section
TrailerAims == {"exact", "one_more", "after_section"}

AimedValue(value, aim, rs) ==
    IF aim = "one_more" THEN <<value[1], value[2] + 1>>
    ELSE IF aim = "after_section" THEN <<Len(RawResponses(rs)), Len(RawItem(RawA))>>
    ELSE value

AimLast(values, aim, rs) ==
    [i \in DOMAIN values |-> IF i = Len(values) THEN AimedValue(values[i], aim, rs) ELSE values[i]]

\* what follows the last section: the trailing length, a wrong one, the
\* length as a CBOR unsigned integer, nothing, the trailing length and two
\* more bytes, one more response
Tails(body) ==
    {RawTrailer(body), BE(0, 8), BE(Len(body), 8), write_unsigned_integer(Len(body) + 8),
     <<>>, RawTrailer(body) \o <<0, 0>>, RawItem(RawA)}

(***************************************************************************)
(* A fourth specification: from_bytes is handed bundles with a free frame. *)
(***************************************************************************)
\* a bundle whose section-lengths table names the sections in names
DecodeTable ==
    /\ pc = "idle"
    /\ \E names \in TableNameLists, rs \in {<<RawA, RawB>>} :
          /\ call' = [names |-> names, responses |-> rs]
          /\ input' = RawFramed(TOP_ARRAY_LEN, HEADER_MAGIC_BYTES,
                                RawTable(EntriesOf(SectionsNamed(names, rs))),
                                Len(names), SectionsNamed(names, rs))
    /\ Decoded("table")

\* a bundle whose sections array declares count items; when oversized, the
\* table gives the first section a length that reaches past the input
DecodeCount ==
    /\ pc = "idle"
    /\ \E count \in SectionCounts, oversized \in BOOLEAN,
          names \in {<<NameIndex, NameResponses>>, <<NamePrimary, NameIndex, NameResponses>>} :
          /\ call' = [names |-> names, count |-> count, oversized |-> oversized,
                      responses |-> <<RawA, RawB>>,
                      entries |-> [EntriesOf(SectionsNamed(names, <<RawA, RawB>>))
                                       EXCEPT ![1].length = IF oversized THEN @ + 200 ELSE @]]
          /\ input' = RawFramed(TOP_ARRAY_LEN, HEADER_MAGIC_BYTES, RawTable(call'.entries),
                                count, SectionsNamed(names, <<RawA, RawB>>))
    /\ Decoded("count")

\* a bundle whose section-lengths byte string is the table, or zero bytes
\* alone, filled up with zero bytes to size bytes
DecodeLimit ==
    /\ pc = "idle"
    /\ \E size \in BlobSizes, table \in BOOLEAN, rs \in RawResponseLists :
          /\ size = 0 => table
          /\ call' = [size |-> size, table |-> table, responses |-> rs,
                      blob |-> PadTo(IF table
                                     THEN RawTable(EntriesOf(SectionsNamed(
                                              <<NameIndex, NameResponses>>, rs)))
                                     ELSE <<>>,
                                     size)]
          /\ input' = RawFramed(TOP_ARRAY_LEN, HEADER_MAGIC_BYTES, call'.blob, 2,
                                SectionsNamed(<<NameIndex, NameResponses>>, rs))
    /\ Decoded("limit")

\* a bundle with a top-level array of top items and the magic given; when
\* hostile its last index value reaches past the input
DecodeFrame ==
    /\ pc = "idle"
    /\ \E top \in TopArrayLens, magic \in MagicValues, hostile \in BOOLEAN :
          /\ call' = [top |-> top, magic |-> magic, hostile |-> hostile,
                      sections |-> RawSections(
                          None, <<>>, <<RawA, RawB>>,
                          DamageLast(RawLocations(<<RawA, RawB>>, 1),
                                     IF hostile THEN "past_buffer" ELSE "none", 8))]
          /\ input' = RawFramed(top, magic, RawTable(EntriesOf(call'.sections)),
                                Len(call'.sections), call'.sections)
    /\ Decoded("frame")

\* a bundle whose one response has the headers map written from pairs
DecodeStatus ==
    /\ pc = "idle"
    /\ \E pairs \in HeaderPairLists :
          /\ call' = [pairs |-> pairs,
                      responses |-> <<[url |-> <<97>>, headers |-> pairs, body |-> <<1>>]>>]
          /\ input' = RawWellFormed(VersionBytes(VersionB2), None, <<>>, call'.responses)
    /\ Decoded("status")

\* a bundle cut after its last section and continued with tail
DecodeTrailer ==
    /\ pc = "idle"
    /\ \E aim \in TrailerAims, rs \in RawResponseLists \ {<<>>} :
          \E body \in {RawBody(VersionBytes(VersionB2),
                               RawSections(None, <<>>, rs,
                                           AimLast(RawLocations(rs, 1), aim, rs)))} :
              \E t \in Tails(body) :
                  /\ call' = [aim |-> aim, body |-> body, tail |-> t, responses |-> rs]
                  /\ input' = body \o t
    /\ Decoded("trailer")

NextFrame ==
    \/ DecodeTable
    \/ DecodeCount
    \/ DecodeLimit
    \/ DecodeFrame
    \/ DecodeStatus
    \/ DecodeTrailer

SpecFrame == InitDecode /\ [][NextFrame]_vars

(***************************************************************************)
(* bundle.rs: the conversions into Request and Exchange.  A Path is the    *)
(* sequence of its components, each a byte string (an OsStr).              *)
(***************************************************************************)
\* "content-length"
CONTENT_LENGTH == <<99, 111, 110, 116, 101, 110, 116, 45, 108, 101, 110, 103, 116, 104>>

\* "content-type"
CONTENT_TYPE == <<99, 111, 110, 116, 101, 110, 116, 45, 116, 121, 112, 101>>

\* "location"
LOCATION == <<108, 111, 99, 97, 116, 105, 111, 110>>

\* "application/octet-stream"
OCTET_STREAM == <<97, 112, 112, 108, 105, 99, 97, 116, 105, 111, 110, 47, 111, 99, 116, 101, 116, 45, 115, 116, 114, 101, 97, 109>>

\* mime_guess's table, as far as the model uses it: html, css and txt
MimeTable(ext) ==
    IF ext = <<104, 116, 109, 108>> THEN Some(<<116, 101, 120, 116, 47, 104, 116, 109, 108>>)
    ELSE IF ext = <<99, 115, 115>> THEN Some(<<116, 101, 120, 116, 47, 99, 115, 115>>)
    ELSE IF ext = <<116, 120, 116>> THEN Some(<<116, 101, 120, 116, 47, 112, 108, 97, 105, 110>>)
    ELSE None

\* the positions of the byte c in s
PositionsOf(s, c) == {i \in DOMAIN s : s[i] = c}

\* the largest element of a non-empty set of numbers
Greatest(S) == CHOOSE x \in S : \A y \in S : y <= x

\* the final component of a path given as text: the text after the last '/',
\* a trailing '/' and a final "." component set aside; none for "", "/", ".."
RECURSIVE FileName(_)
FileName(s) ==
    IF s = <<>> THEN None
    ELSE IF s[Len(s)] = 47 THEN FileName(SubSeq(s, 1, Len(s) - 1))
    ELSE Let(IF PositionsOf(s, 47) = {} THEN s
             ELSE SubSeq(s, Greatest(PositionsOf(s, 47)) + 1, Len(s)),
             LAMBDA last :
             IF last = <<46>> THEN FileName(SubSeq(s, 1, Len(s) - 1))
             ELSE IF last = <<46, 46>> THEN None
             ELSE Some(last))

\* Path::extension of a file name: the text after its last '.', none when
\* there is no '.' or only a leading one
ExtensionOf(name) ==
    IF PositionsOf(name, 46) = {} \/ Greatest(PositionsOf(name, 46)) = 1 THEN None
    ELSE Some(SubSeq(name, Greatest(PositionsOf(name, 46)) + 1, Len(name)))

PathExtension(s) ==
    IF FileName(s) = None THEN None ELSE ExtensionOf(FileName(s)[1])

AsciiLower(c) == IF c >= 65 /\ c <= 90 THEN c + 32 ELSE c

\* a guess that knows no extension
MimeGuessNothing(s) == OCTET_STREAM

\* mime_guess::from_path(path).first_or_octet_stream(), as a header value
MimeGuess(s) ==
    IF PathExtension(s) = None THEN OCTET_STREAM
    ELSE Let(MimeTable([i \in DOMAIN PathExtension(s)[1] |->
                           AsciiLower(PathExtension(s)[1][i])]),
             LAMBDA guess : IF guess = None THEN OCTET_STREAM ELSE guess[1])

\* impl From<String> for Request
RequestFromString(url) == Request(url)

\* the components joined with '/'
RECURSIVE JoinComponents(_)
JoinComponents(path) ==
    IF path = <<>> THEN <<>>
    ELSE IF Len(path) = 1 THEN path[1]
    ELSE path[1] \o <<47>> \o JoinComponents(Tail(path))

\* impl From<&Path> for Request: to_str().unwrap() panics on a component that
\* is not UTF-8
RequestFromPath(path) ==
    IF \E i \in DOMAIN path : ~Utf8Valid(path[i]) THEN Panic
    ELSE Ok(Request(JoinComponents(path)))

\* the HTTP status 200 OK
StatusOk == 200

\* the HTTP status 301 Moved Permanently
StatusMovedPermanently == 301

\* the value of the content-length header of a body
ContentLengthOf(body) == ToDecimal(Len(body))

\* the response built by From<(T, Vec<u8>, ContentType)>
ResponseFrom(body, content_type) ==
    Response(StatusOk,
             HeaderMapInsert(HeaderMapInsert(<<>>, CONTENT_LENGTH, ContentLengthOf(body)),
                             CONTENT_TYPE, content_type),
             body)

\* impl From<(T, Vec<u8>, ContentType)> for Exchange, T a String
ExchangeFrom3(url, body, content_type) ==
    Exchange(RequestFromString(url), ResponseFrom(body, content_type))

\* impl From<(T, Vec<u8>)> for Exchange, T a String
ExchangeFrom2(url, body) == ExchangeFrom3(url, body, MimeGuess(url))

(***************************************************************************)
(* fs/builder.rs: ExchangeBuilder.  The walk is given the entries WalkDir  *)
(* yields, in its order: each is [path, type, contents] with path the      *)
(* components below the base directory (none for the base directory        *)
(* itself), type "file", "dir" or "symlink".                               *)
(***************************************************************************)
\* "index.html"
INDEX_HTML == <<105, 110, 100, 101, 120, 46, 104, 116, 109, 108>>

\* "./"
REDIRECT_LOCATION == <<46, 47>>

\* Path::parent of a path with at least one component
PathParent(path) == SubSeq(path, 1, Len(path) - 1)

\* Path::display().to_string(): the components joined with the separator
PathDisplay(path) == JoinComponents(path)

\* ExchangeBuilder::create_redirect
create_redirect(location) ==
    Try(HeaderValueFromStr(location), LAMBDA value :
        Ok(Response(StatusMovedPermanently, HeaderMapInsert(<<>>, LOCATION, value), <<>>)))

\* ExchangeBuilder::exchange_redirect
exchange_redirect(exchanges, relative_url, location) ==
    Try(create_redirect(location), LAMBDA response :
        Ok(Append(exchanges, Exchange(RequestFromString(PathDisplay(relative_url)), response))))

\* ExchangeBuilder::exchange (and exchange_sync), the file read giving body
exchange(exchanges, relative_url, relative_path, body) ==
    Try(RequestFromPath(relative_url), LAMBDA request :
        Ok(Append(exchanges,
                  Exchange(request, ResponseFrom(body, MimeGuess(JoinComponents(relative_path)))))))

\* the body of the loop of walk for one entry
WalkEntry(exchanges, entry) ==
    IF entry.type = "symlink" THEN Ok(exchanges)
    ELSE IF entry.type # "file" THEN Ok(exchanges)
    ELSE IF entry.path[Len(entry.path)] = INDEX_HTML
    THEN Try(exchange(exchanges, PathParent(entry.path), entry.path, entry.contents),
             LAMBDA served : exchange_redirect(served, entry.path, REDIRECT_LOCATION))
    ELSE exchange(exchanges, entry.path, entry.path, entry.contents)

RECURSIVE WalkLoop(_, _)
WalkLoop(exchanges, entries) ==
    IF entries = <<>> THEN Ok(exchanges)
    ELSE Try(WalkEntry(exchanges, Head(entries)), LAMBDA next :
             WalkLoop(next, Tail(entries)))

\* ExchangeBuilder::new(base_dir).walk().build()
walk(entries) == WalkLoop(<<>>, entries)

\* Builder::exchanges_from_dir
exchanges_from_dir(b, entries) ==
    Try(walk(entries), LAMBDA exchanges :
        Ok([b EXCEPT !.exchanges = @ \o exchanges]))

(***************************************************************************)
(* webbundle-ffi: webbundle_parse and webbundle_primary_url.  A pointer to *)
(* a WebBundle is an Option: None is the null pointer.                     *)
(***************************************************************************)
webbundle_parse(bytes) ==
    Let(parse(bytes), LAMBDA r : IF IsOk(r) THEN Some(r.val) ELSE None)

\* the buffer after ptr::copy_nonoverlapping of the text to its start
CopyInto(buffer, text) ==
    [i \in DOMAIN buffer |-> IF i <= Len(text) THEN text[i] ELSE buffer[i]]

\* webbundle_primary_url: the returned c_int and the buffer afterwards
webbundle_primary_url(handle, buffer) ==
    IF handle = None THEN [code |-> -1, buffer |-> buffer]
    ELSE IF handle[1].primary_url = None THEN [code |-> -1, buffer |-> buffer]
    ELSE Let(UriToString(handle[1].primary_url[1]), LAMBDA uri :
             IF Len(buffer) < Len(uri) THEN [code |-> -1, buffer |-> buffer]
             ELSE [code |-> Len(uri), buffer |-> CopyInto(buffer, uri)])

(***************************************************************************)
(* A fifth specification: the calls outside the builder pipeline.  The     *)
(* conversions into Exchange, the directory walk, and the two functions of *)
(* webbundle-ffi, webbundle_primary_url after webbundle_parse.             *)
(***************************************************************************)
\* the longest buffer handed to webbundle_primary_url
MaxBufferLen == 8

\* index.html, a.css, A.HTML, ./foo/, the empty url, x.bin, .txt, d/b.txt
FromUrls ==
    {<<105, 110, 100, 101, 120, 46, 104, 116, 109, 108>>, <<97, 46, 99, 115, 115>>, <<65, 46, 72, 84, 77, 76>>, <<46, 47, 102, 111, 111, 47>>, <<>>, <<120, 46, 98, 105, 110>>, <<46, 116, 120, 116>>, <<100, 47, 98, 46, 116, 120, 116>>}

\* bodies of 0, 1 and 11 bytes
FromBodies == {<<>>, <<1>>, [i \in 1..11 |-> i]}

\* no content type, text/html, application/json
FromContentTypes == {None, Some(<<116, 101, 120, 116, 47, 104, 116, 109, 108>>), Some(<<97, 112, 112, 108, 105, 99, 97, 116, 105, 111, 110, 47, 106, 115, 111, 110>>)}

\* what WalkDir may yield, in its order; the ninth name is not UTF-8
WalkUniverse ==
    <<[path |-> <<>>, type |-> "dir", contents |-> <<>>],
      [path |-> <<<<97, 46, 99, 115, 115>>>>, type |-> "file", contents |-> <<2, 3>>],
      [path |-> <<<<100>>>>, type |-> "dir", contents |-> <<>>],
      [path |-> <<<<100>>, <<98, 46, 116, 120, 116>>>>, type |-> "file", contents |-> <<4>>],
      [path |-> <<<<100>>, INDEX_HTML>>, type |-> "file", contents |-> <<5, 6, 7>>],
      [path |-> <<<<100>>, <<109>>>>, type |-> "symlink", contents |-> <<>>],
      [path |-> <<INDEX_HTML>>, type |-> "file", contents |-> <<1>>],
      [path |-> <<<<108>>>>, type |-> "symlink", contents |-> <<>>],
      [path |-> <<<<255>>>>, type |-> "file", contents |-> <<8>>]>>

\* the directory trees: the base directory with any of the other entries, an
\* entry below d only together with d
WalkTrees ==
    {S \in SUBSET (1..Len(WalkUniverse)) :
        /\ 1 \in S
        /\ (S \cap {4, 5, 6} # {}) => 3 \in S}

RECURSIVE WalkEntriesFrom(_, _)
WalkEntriesFrom(S, i) ==
    IF i > Len(WalkUniverse) THEN <<>>
    ELSE (IF i \in S THEN <<WalkUniverse[i]>> ELSE <<>>) \o WalkEntriesFrom(S, i + 1)

WalkEntries(S) == WalkEntriesFrom(S, 1)

\* the encodings of b2 bundles without exchanges, with no primary url, with
\* h://e and with h://e/i, and an input that is no bundle
FfiInputs ==
    {encode_to_vec(Bundle(VersionB2, p, <<>>)).val : p \in {None} \cup {Some(u) : u \in Uris}}
        \cup {<<>>}

InitApi ==
    /\ builder = BuilderNew
    /\ hist = [version |-> None, primary_url |-> None, exchanges |-> <<>>]
    /\ bundle = NotYet
    /\ encoded = NotYet
    /\ input = <<>>
    /\ parsed = NotYet
    /\ reencoded = NotYet
    /\ call = NotYet
    /\ ret = NotYet
    /\ pc = "idle"

\* Exchange::from((url, body)) or Exchange::from((url, body, content_type))
ApiExchangeFrom ==
    /\ pc = "idle"
    /\ \E url \in FromUrls, body \in FromBodies, ct \in FromContentTypes :
          /\ call' = [url |-> url, body |-> body, content_type |-> ct]
          /\ ret' = IF ct = None THEN ExchangeFrom2(url, body)
                    ELSE ExchangeFrom3(url, body, ct[1])
    /\ pc' = "from"
    /\ UNCHANGED <<builder, hist, bundle, encoded, input, parsed, reencoded>>

\* builder.exchanges_from_dir(dir), the builder holding no exchange or one
ApiExchangesFromDir ==
    /\ pc = "idle"
    /\ \E S \in WalkTrees, before \in {<<>>, <<ExA>>} :
          /\ call' = [entries |-> WalkEntries(S), before |-> before]
          /\ ret' = exchanges_from_dir([builder EXCEPT !.exchanges = before],
                                       call'.entries)
    /\ builder' = IF IsOk(ret') THEN ret'.val ELSE BuilderNew
    /\ pc' = "walk"
    /\ UNCHANGED <<hist, bundle, encoded, input, parsed, reencoded>>

\* webbundle_parse(bytes, length)
ApiFfiParse ==
    /\ pc = "idle"
    /\ \E bytes \in FfiInputs : input' = bytes
    /\ ret' = [handle |-> webbundle_parse(input')]
    /\ pc' = "ffi_parsed"
    /\ UNCHANGED <<builder, hist, bundle, encoded, parsed, reencoded, call>>

\* webbundle_primary_url(bundle, buffer, length), the buffer filled with 0xff
ApiFfiPrimaryUrl ==
    /\ pc = "ffi_parsed"
    /\ \E length \in 0..MaxBufferLen : call' = [buffer |-> [i \in 1..length |-> 255]]
    /\ ret' = [handle |-> ret.handle,
               out |-> webbundle_primary_url(ret.handle, call'.buffer)]
    /\ pc' = "ffi_url"
    /\ UNCHANGED <<builder, hist, bundle, encoded, input, parsed, reencoded>>

NextApi ==
    \/ ApiExchangeFrom
    \/ ApiExchangesFromDir
    \/ ApiFfiParse
    \/ ApiFfiPrimaryUrl

SpecApi == InitApi /\ [][NextApi]_vars

(***************************************************************************)
(* webbundle-server main.rs: normalize_path.  A path string is split into  *)
(* components as std::path::Path::components does on Unix; a PathBuf is    *)
(* the sequence of its components, which is what PathBuf equality compares.*)
(***************************************************************************)
RootDir == [kind |-> "RootDir", name |-> <<>>]

CurDir == [kind |-> "CurDir", name |-> <<>>]

ParentDir == [kind |-> "ParentDir", name |-> <<>>]

Normal(x) == [kind |-> "Normal", name |-> x]

\* the pieces of s between its '/' bytes, empty pieces included
RECURSIVE SplitSlash(_, _)
SplitSlash(s, piece) ==
    IF s = <<>> THEN <<piece>>
    ELSE IF Head(s) = 47 THEN <<piece>> \o SplitSlash(Tail(s), <<>>)
    ELSE SplitSlash(Tail(s), Append(piece, Head(s)))

\* the components of the pieces: an empty piece is no component, "." is one
\* only as the first piece of a relative path, ".." is ParentDir
RECURSIVE PieceComponents(_, _)
PieceComponents(pieces, first) ==
    IF pieces = <<>> THEN <<>>
    ELSE (IF Head(pieces) = <<>> THEN <<>>
          ELSE IF Head(pieces) = <<46>> THEN (IF first THEN <<CurDir>> ELSE <<>>)
          ELSE IF Head(pieces) = <<46, 46>> THEN <<ParentDir>>
          ELSE <<Normal(Head(pieces))>>)
             \o PieceComponents(Tail(pieces), FALSE)

\* Path::components
Components(path) ==
    IF path # <<>> /\ path[1] = 47
    THEN <<RootDir>> \o PieceComponents(Tail(SplitSlash(path, <<>>)), FALSE)
    ELSE PieceComponents(SplitSlash(path, <<>>), TRUE)

\* PathBuf::push of one Normal component: it is appended
PathBufPush(result, x) == Append(result, Normal(x))

\* PathBuf::pop: the last component goes; nothing happens when there is none
PathBufPop(result) ==
    IF result = <<>> THEN result ELSE SubSeq(result, 1, Len(result) - 1)

\* a fold step that keeps every component it is given
NormalizeStepKeepAll(result, p) == Append(result, p)

\* the closure of the fold: what one component does to the result
NormalizeStep(result, p) ==
    IF p.kind = "Normal" THEN PathBufPush(result, p.name)
    ELSE IF p.kind = "ParentDir" THEN PathBufPop(result)
    ELSE result

RECURSIVE NormalizeFold(_, _)
NormalizeFold(components, result) ==
    IF components = <<>> THEN result
    ELSE NormalizeFold(Tail(components), NormalizeStep(result, Head(components)))

\* Path::join: an absolute path replaces the base, a relative one is appended
PathJoin(base, path) ==
    IF path # <<>> /\ path[1] = RootDir THEN path ELSE base \o path

normalize_path(root, path) ==
    PathJoin(Components(root), NormalizeFold(Components(path), <<>>))

(***************************************************************************)
(* A sixth specification: the server normalizes request paths.             *)
(***************************************************************************)
\* the longest request path, in bytes
MaxPathLen == 5

\* the bytes of request paths: '/', '.', 'a', 'b'
PathBytes == {47, 46, 97, 98}

RequestPaths == UNION {[1..n -> PathBytes] : n \in 0..MaxPathLen}

\* "/r", "r/s" and the empty root
ServerRoots == {<<47, 114>>, <<114, 47, 115>>, <<>>}

InitServer ==
    /\ builder = BuilderNew
    /\ hist = [version |-> None, primary_url |-> None, exchanges |-> <<>>]
    /\ bundle = NotYet
    /\ encoded = NotYet
    /\ input = <<>>
    /\ parsed = NotYet
    /\ reencoded = NotYet
    /\ call = NotYet
    /\ ret = NotYet
    /\ pc = "idle"

ServerNormalizePath ==
    /\ pc = "idle"
    /\ \E root \in ServerRoots, path \in RequestPaths :
          /\ call' = [root |-> root, path |-> path]
          /\ ret' = normalize_path(root, path)
    /\ pc' = "normalized"
    /\ UNCHANGED <<builder, hist, bundle, encoded, input, parsed, reencoded>>

NextServer == ServerNormalizePath

SpecServer == InitServer /\ [][NextServer]_vars

(***************************************************************************)
(* Reading an encoder output back for the checks below: the position after *)
(* a data item, the serialized keys of a map, the elements of the          *)
(* responses array.                                                        *)
(***************************************************************************)
RECURSIVE ItemEnd(_, _)
RECURSIVE ItemsEnd(_, _, _)
\* the position after the data item at pos; past the end when it is malformed
ItemEnd(buf, pos) ==
    LET h == CborLen(buf, pos)
        major == buf[pos + 1] \div 32
    IN  IF ~IsOk(h) THEN Len(buf) + 1
        ELSE IF major = 2 \/ major = 3 THEN h.val.pos + h.val.v.len
        ELSE IF major = 4 THEN ItemsEnd(buf, h.val.pos, h.val.v.len)
        ELSE IF major = 5 THEN ItemsEnd(buf, h.val.pos, 2 * h.val.v.len)
        ELSE h.val.pos

ItemsEnd(buf, pos, n) ==
    IF n = 0 \/ pos >= Len(buf) THEN (IF n = 0 THEN pos ELSE Len(buf) + 1)
    ELSE ItemsEnd(buf, ItemEnd(buf, pos), n - 1)

\* the serialized keys of the key/value pairs that lie in buf from pos on
RECURSIVE PairsKeys(_, _)
PairsKeys(buf, pos) ==
    IF pos >= Len(buf) THEN <<>>
    ELSE LET ke == ItemEnd(buf, pos)
         IN  IF ke >= Len(buf) THEN <<Slice(buf, pos, Len(buf))>>
             ELSE <<Slice(buf, pos, ke)>> \o PairsKeys(buf, ItemEnd(buf, ke))

\* the keys written after the header of the map that fills buf
MapKeys(buf) == PairsKeys(buf, CborLen(buf, 0).val.pos)

\* the entry count the header of the map that fills buf declares
MapDeclared(buf) == CborLen(buf, 0).val.v.len

\* the slices of the n data items that lie in buf from pos on
RECURSIVE ItemSlices(_, _, _)
ItemSlices(buf, pos, n) ==
    IF n = 0 \/ pos >= Len(buf) THEN <<>>
    ELSE <<Slice(buf, pos, ItemEnd(buf, pos))>> \o ItemSlices(buf, ItemEnd(buf, pos), n - 1)

StrictlyAscending(keys) == \A i \in 1..(Len(keys) - 1) : LexLess(keys[i], keys[i + 1])

\* the section table of an encoder output, as the decoder reads it
TableOf(out) == read_metadata(out, 0).val.v.section_offsets

SectionNames(out) == [i \in DOMAIN TableOf(out) |-> TableOf(out)[i].name]

\* the bytes of the section called name
SectionOf(out, name) ==
    LET t == TableOf(out)
        i == CHOOSE j \in DOMAIN t : t[j].name = name
    IN  Slice(out, t[i].offset, t[i].offset + t[i].length)

\* the elements of the responses array of an encoder output
ResponseItems(out) ==
    LET r == SectionOf(out, NameResponses)
        h == CborLen(r, 0).val
    IN  ItemSlices(r, h.pos, h.v.len)

\* the headers map carried by one element of the responses array
HeadersOfItem(item) == de_bytes(item, 1).val.v

DistinctUrls(exchanges) ==
    \A i, j \in DOMAIN exchanges :
        i # j => exchanges[i].request.url # exchanges[j].request.url

EncodedOk == pc = "encoded" /\ IsOk(encoded)

(***************************************************************************)
(* Equality of bundles as the round trip compares them.                    *)
(***************************************************************************)
\* how often a <<name, value>> pair occurs in a header map
PairCount(headers, pair) == Cardinality({i \in DOMAIN headers : headers[i] = pair})

\* header maps compared as multimaps, whatever their order
HeadersEq(h1, h2) ==
    /\ Len(h1) = Len(h2)
    /\ \A pair \in Range(h1) \cup Range(h2) : PairCount(h1, pair) = PairCount(h2, pair)

OptionUriEq(a, b) ==
    /\ Len(a) = Len(b)
    /\ a # None => UriEq(a[1], b[1])

ExchangeEq(e1, e2) ==
    /\ e1.request.url = e2.request.url
    /\ e1.response.status = e2.response.status
    /\ e1.response.body = e2.response.body
    /\ HeadersEq(e1.response.headers, e2.response.headers)

BundleEq(b1, b2) ==
    /\ b1.version = b2.version
    /\ OptionUriEq(b1.primary_url, b2.primary_url)
    /\ Len(b1.exchanges) = Len(b2.exchanges)
    /\ \A i \in DOMAIN b1.exchanges : ExchangeEq(b1.exchanges[i], b2.exchanges[i])

(***************************************************************************)
(* The claims.                                                             *)
(***************************************************************************)

\* C1: round trip.  Whenever from_bytes has been handed the encoding of a
\* built bundle, it succeeds and the bundle it returns equals the built one in
\* version, primary_url, the sequence of exchange URLs, every status and body,
\* and every header map compared as a multimap.
C1_RoundTrip ==
    pc = "parsed" => IsOk(parsed) /\ BundleEq(parsed.val, bundle.val)

\* C2: insertion order.  For a built bundle whose exchanges have pairwise
\* distinct URLs, from_bytes of its encoding succeeds and the i-th decoded
\* exchange has the URL, the status and the body of the i-th exchange added.
C2_InsertionOrder ==
    (pc = "parsed" /\ DistinctUrls(bundle.val.exchanges)) =>
        /\ IsOk(parsed)
        /\ Len(parsed.val.exchanges) = Len(bundle.val.exchanges)
        /\ \A i \in DOMAIN bundle.val.exchanges :
              /\ parsed.val.exchanges[i].request.url = bundle.val.exchanges[i].request.url
              /\ parsed.val.exchanges[i].response.status
                     = bundle.val.exchanges[i].response.status
              /\ parsed.val.exchanges[i].response.body
                     = bundle.val.exchanges[i].response.body

\* C3: canonical stability.  Encoding the bundle that from_bytes returned for
\* an encoding gives that encoding again, byte for byte.
C3_CanonicalStability ==
    pc = "reencoded" => reencoded = encoded

\* C4: truncation safety.  from_bytes of a strict prefix of an encoded bundle
\* returns an error: it neither panics nor returns a Bundle.
C4_TruncationSafety ==
    pc = "parsed_prefix" => parsed.kind = "err"

\* C5: offset correctness.  In the encoding of a bundle whose exchanges have
\* pairwise distinct URLs, the index entry of each exchange's URL holds an
\* offset and a length such that these bytes of the responses section, counted
\* from the first byte of the section's CBOR value, are exactly the encoded
\* [headers, body] array of that exchange, and the decoder resolves the entry
\* to the position of the responses section plus the offset, where the same
\* bytes lie in the whole output.
C5_OffsetCorrectness ==
    (EncodedOk /\ DistinctUrls(bundle.val.exchanges)) =>
        LET out == encoded.val
            exs == bundle.val.exchanges
            table == TableOf(out)
            respStart == Len(out) - 8 - table[Len(table)].length
            resp == Slice(out, respStart, Len(out) - 8)
            idx == SectionOf(out, NameIndex)
            rel == read_index(idx, 0)
            abs == read_index(idx, table[Len(table)].offset)
        IN  /\ IsOk(read_metadata(out, 0))
            /\ IsOk(rel) /\ IsOk(abs)
            /\ de_array(resp, 0).val.v.len = Len(exs)
            /\ ItemEnd(resp, 0) = Len(resp)
            /\ table[Len(table)].offset = respStart
            /\ \A i \in DOMAIN exs :
                  \E k \in DOMAIN rel.val :
                      LET o == rel.val[k].response_location.offset
                          l == rel.val[k].response_location.length
                          a == abs.val[k].response_location.offset
                          item == ResponseItem(encode_headers(exs[i].response).val,
                                               exs[i].response.body)
                      IN  /\ rel.val[k].request.url = exs[i].request.url
                          /\ o + l <= Len(resp)
                          /\ Slice(resp, o, o + l) = item
                          /\ a = respStart + o
                          /\ Slice(out, a, a + l) = item
                          /\ IsOk(read_response(Slice(out, a, a + l)))
                          /\ read_response(Slice(out, a, a + l)).val.body
                                 = exs[i].response.body

\* a bundle of two exchanges with distinct URLs has been encoded
C5_Witness ==
    /\ EncodedOk
    /\ Len(bundle.val.exchanges) >= 2
    /\ DistinctUrls(bundle.val.exchanges)

\* C6: trailing length.  The last 8 bytes of every encoder output are the
\* big-endian value of the length of the whole output, those 8 bytes included.
C6_TrailingLength ==
    EncodedOk =>
        /\ Len(encoded.val) >= 8
        /\ Slice(encoded.val, Len(encoded.val) - 8, Len(encoded.val))
               = BE(Len(encoded.val), 8)
        /\ FromBE(Slice(encoded.val, Len(encoded.val) - 8, Len(encoded.val)))
               = Len(encoded.val)

\* a bundle with exchanges and a primary_url has been encoded
C6_Witness ==
    /\ EncodedOk
    /\ bundle.val.exchanges # <<>>
    /\ bundle.val.primary_url # None

\* C7: builder.  build fails iff version was never called; when it succeeds
\* the Bundle has the last version passed, the last primary_url passed (or
\* none) and the exchanges in the order they were passed, zero exchanges
\* included.
C7_Builder ==
    pc # "building" =>
        /\ bundle.kind = "err" <=> hist.version = None
        /\ bundle.kind = "ok" <=> hist.version # None
        /\ IsOk(bundle) =>
              /\ bundle.val.version = hist.version[1]
              /\ bundle.val.primary_url = hist.primary_url
              /\ bundle.val.exchanges = hist.exchanges

\* a builder with no exchange and no primary_url has built a Bundle
C7_Witness ==
    /\ pc = "built"
    /\ IsOk(bundle)
    /\ bundle.val.exchanges = <<>>
    /\ bundle.val.primary_url = None

\* C8: duplicate URLs.  Encoding a bundle in which two exchanges have equal
\* request URLs returns an error.
C8_DuplicateUrlsRejected ==
    (pc = "encoded" /\ ~DistinctUrls(bundle.val.exchanges)) => encoded.kind = "err"

\* C9: canonical key order.  In every encoder output the serialized keys of
\* the index map and of the headers map of every response are in strictly
\* ascending bytewise order, and they are the keys of the bundle: the URLs of
\* its exchanges, and :status with the header names of each response.
C9_CanonicalKeyOrder ==
    EncodedOk =>
        LET out == encoded.val
            exs == bundle.val.exchanges
            items == ResponseItems(out)
        IN  /\ StrictlyAscending(MapKeys(SectionOf(out, NameIndex)))
            /\ Range(MapKeys(SectionOf(out, NameIndex)))
                   = {write_text(exs[i].request.url) : i \in DOMAIN exs}
            /\ Len(items) = Len(exs)
            /\ \A i \in DOMAIN items :
                  /\ StrictlyAscending(MapKeys(HeadersOfItem(items[i])))
                  /\ Range(MapKeys(HeadersOfItem(items[i])))
                         = {write_bytes(StatusKey)}
                           \cup {write_bytes(exs[i].response.headers[j][1]) :
                                     j \in DOMAIN exs[i].response.headers}

\* a bundle has been encoded whose second URL sorts before its first, and whose
\* first response has headers that were not inserted in key order
C9_Witness ==
    /\ EncodedOk
    /\ Len(bundle.val.exchanges) >= 2
    /\ LexLess(write_text(bundle.val.exchanges[2].request.url),
               write_text(bundle.val.exchanges[1].request.url))
    /\ Len(bundle.val.exchanges[1].response.headers) >= 2
    /\ LexLess(bundle.val.exchanges[1].response.headers[2][1],
               bundle.val.exchanges[1].response.headers[1][1])

\* C10: section order.  Every encoder output names its sections primary,
\* index, responses when the bundle has a primary_url and index, responses
\* when it has none; the sections array holds as many values, in the same
\* order (a text string, a map, an array), one after the other up to the
\* trailing length.  (Each section's value ends where the table says; for the
\* index map this is stated for bundles without a repeated URL.)
C10_SectionOrder ==
    EncodedOk =>
        LET out == encoded.val
            md == read_metadata(out, 0)
            table == TableOf(out)
            major == [i \in DOMAIN table |-> out[table[i].offset + 1] \div 32]
        IN  /\ IsOk(md)
            /\ SectionNames(out)
                   = (IF bundle.val.primary_url # None THEN <<NamePrimary>> ELSE <<>>)
                     \o <<NameIndex, NameResponses>>
            /\ read_array_len(out, md.val.pos).val.v = Len(table)
            /\ table[1].offset = read_array_len(out, md.val.pos).val.pos
            /\ \A i \in DOMAIN table :
                  /\ (table[i].name # NameIndex \/ DistinctUrls(bundle.val.exchanges))
                         => ItemEnd(out, table[i].offset)
                                = table[i].offset + table[i].length
                  /\ i < Len(table) => table[i + 1].offset = table[i].offset + table[i].length
                  /\ major[i] = (IF table[i].name = NamePrimary THEN 3
                                 ELSE IF table[i].name = NameIndex THEN 5 ELSE 4)
            /\ table[Len(table)].offset + table[Len(table)].length = Len(out) - 8

\* a bundle with a primary_url has been encoded
C10_Witness ==
    /\ EncodedOk
    /\ bundle.val.primary_url # None
    /\ Len(bundle.val.exchanges) >= 1

\* the header names of every exchange of a decoded bundle
DecodedHeaderNames(b) ==
    UNION {{b.exchanges[i].response.headers[j][1] :
                j \in DOMAIN b.exchanges[i].response.headers} : i \in DOMAIN b.exchanges}

IsUpperOrNonAscii(c) == (c >= 65 /\ c <= 90) \/ c >= 128

\* C11: header canonicalization on decode.  In every Bundle from_bytes
\* returns, every response header name is lower-case ASCII, none begins with
\* ':' and none is :status, while the status field holds what the :status
\* entry said; an input with a header name that has an upper-case or
\* non-ASCII character is rejected with an error; a lower-case name is
\* accepted and kept.
C11_HeaderCanonicalization ==
    /\ IsOk(parsed) =>
          \A name \in DecodedHeaderNames(parsed.val) :
              /\ name # <<>>
              /\ name[1] # 58
              /\ name # StatusKey
              /\ \A i \in DOMAIN name : ~IsUpperOrNonAscii(name[i])
    /\ pc = "headers" =>
          /\ (\E i \in DOMAIN call.name : IsUpperOrNonAscii(call.name[i]))
                 => parsed.kind = "err"
          /\ call.name \in {<<120>>, <<120, 45, 121>>} =>
                 /\ IsOk(parsed)
                 /\ parsed.val.exchanges[Len(parsed.val.exchanges)].response.headers
                        = (IF call.name = <<120>>
                           THEN << <<<<120>>, <<50>>>> >>   \* x: 2 has replaced x: 1
                           ELSE << <<<<120>>, <<49>>>>, <<call.name, <<50>>>> >>)
                 /\ parsed.val.exchanges[Len(parsed.val.exchanges)].response.status = 404

\* a bundle with a header named Content-Type has been handed to from_bytes
C11_Witness ==
    /\ pc = "headers"
    /\ call.name = <<67, 111, 110, 116, 101, 110, 116, 45, 84, 121, 112, 101>>
    /\ parsed.kind = "err"

\* C12: version classification.  from_bytes of an otherwise well-formed
\* bundle fails iff the version byte string is not 4 bytes long; otherwise
\* the version is VersionB2 for 62 32 00 00, Version1 for 31 00 00 00 and
\* Unknown(bytes) for every other value; and classifying the bytes of a
\* Version gives a Version with the same bytes.
C12_VersionClassification ==
    pc = "version" =>
        /\ parsed.kind = "err" <=> Len(call.version) # VERSION_BYTES_LEN
        /\ Len(call.version) = VERSION_BYTES_LEN =>
              /\ IsOk(parsed)
              /\ parsed.val.version =
                     (IF call.version = <<98, 50, 0, 0>> THEN VersionB2
                      ELSE IF call.version = <<49, 0, 0, 0>> THEN Version1
                      ELSE Unknown(call.version))
              /\ \A v \in Versions \cup {Unknown(call.version)} :
                     VersionBytes(ClassifyVersion(VersionBytes(v))) = VersionBytes(v)

\* a bundle with the version bytes 62 31 00 00 has been decoded as Unknown
C12_Witness ==
    /\ pc = "version"
    /\ call.version = <<98, 49, 0, 0>>
    /\ IsOk(parsed)
    /\ parsed.val.version = Unknown(<<98, 49, 0, 0>>)

\* the sections of the hand-made bundle of a "version", "sections" or
\* "headers" call
CallSections ==
    RawSections(call.primary,
                IF pc = "sections" THEN call.extra ELSE <<>>,
                call.responses, RawLocations(call.responses, 1))

\* the sum of the lengths of the first n of the sections
RECURSIVE BytesBefore(_, _)
BytesBefore(sections, n) ==
    IF n = 0 THEN 0 ELSE BytesBefore(sections, n - 1) + Len(sections[n].bytes)

\* the position in the hand-made bundle at which its i-th section starts
SectionStart(version, sections, i) ==
    Len(RawHead(version, sections)) + Len(write_array(Len(sections)))
        + BytesBefore(sections, i - 1)

\* C13: unknown sections are skipped.  A well-formed bundle with sections of
\* unrecognised names before the index decodes successfully, to the Bundle
\* that the bundle without them decodes to, and the offset of every section
\* is the position at which it starts, the lengths of the skipped sections
\* counted.
C13_UnknownSectionsSkipped ==
    (pc = "sections" /\ call.extra = UnknownSections(Len(call.extra))) =>
        /\ IsOk(parsed)
        /\ parsed = parse(RawWellFormed(call.version, call.primary, <<>>, call.responses))
        /\ \A i \in DOMAIN CallSections :
              TableOf(input)[i].offset = SectionStart(call.version, CallSections, i)

\* C14: signatures and variants.  from_bytes returns an error for a bundle
\* with a signatures section and for a bundle with an index entry that
\* carries a variants value before its offset and length.
C14_SignaturesVariantsRejected ==
    /\ (pc = "sections" /\ \E i \in DOMAIN call.extra : call.extra[i].name = NameSignatures)
           => parsed.kind = "err"
    /\ (pc = "index" /\ call.damage = "variants") => parsed.kind = "err"

\* C15: critical section.  from_bytes returns an error for a bundle whose
\* critical section lists a section name the decoder does not implement.
C15_CriticalValidated ==
    (pc = "sections"
         /\ \E i \in DOMAIN call.extra :
                call.extra[i] = CriticalSection(<<UnknownSection(0).name>>))
        => parsed.kind = "err"

\* C19: bad index entries.  from_bytes returns an error, and neither panics
\* nor returns a Bundle, for a bundle with an index value that is not an
\* array of 2, or whose offset + length reaches past the end of the responses
\* section or of the input.
C19_BadIndexEntries ==
    (pc = "index"
         /\ call.damage \in {"one_element", "three_elements", "variants", "past_section",
                             "past_buffer", "offset_past_buffer"})
        => parsed.kind = "err"

\* C20: absolute section offsets.  For every well-formed bundle of K sections
\* the offset the decoder computes for section i is the position at which the
\* section's value starts: the position after the section-lengths byte
\* string, plus the width of the header of the sections array, plus the
\* lengths of the sections before i.
C20_AbsoluteSectionOffsets ==
    pc = "sections" =>
        /\ IsOk(read_metadata(input, 0))
        /\ Len(TableOf(input)) = Len(CallSections)
        /\ \A i \in DOMAIN CallSections :
              /\ TableOf(input)[i].offset = SectionStart(call.version, CallSections, i)
              /\ TableOf(input)[i].offset
                     = read_metadata(input, 0).val.pos + Len(write_array(Len(CallSections)))
                           + BytesBefore(CallSections, i - 1)
              /\ Slice(input, TableOf(input)[i].offset,
                       TableOf(input)[i].offset + TableOf(input)[i].length)
                     = CallSections[i].bytes

\* the content type to expect for the urls of FromUrls
ExpectedGuess(url) ==
    IF url \in {<<105, 110, 100, 101, 120, 46, 104, 116, 109, 108>>, <<65, 46, 72, 84, 77, 76>>} THEN <<116, 101, 120, 116, 47, 104, 116, 109, 108>>
    ELSE IF url = <<97, 46, 99, 115, 115>> THEN <<116, 101, 120, 116, 47, 99, 115, 115>>
    ELSE IF url = <<100, 47, 98, 46, 116, 120, 116>> THEN <<116, 101, 120, 116, 47, 112, 108, 97, 105, 110>>
    ELSE OCTET_STREAM

\* C16: convenience constructors.  Exchange::from((url, body)) and
\* Exchange::from((url, body, content_type)) give an exchange whose request
\* has the url unchanged, whose response has status 200, the body given, and
\* exactly two headers: content-length with the decimal length of the body and
\* content-type with the explicit type or, without one, the type guessed from
\* the url's suffix (application/octet-stream when there is no guess).
C16_ConvenienceConstructors ==
    pc = "from" =>
        /\ ret.request.url = call.url
        /\ ret.request.headers = <<>>
        /\ ret.response.status = 200
        /\ ret.response.body = call.body
        /\ Len(ret.response.headers) = 2
        /\ Range(ret.response.headers)
               = {<<CONTENT_LENGTH,
                    IF Len(call.body) = 0 THEN <<48>>
                    ELSE IF Len(call.body) = 1 THEN <<49>> ELSE <<49, 49>>>>,
                  <<CONTENT_TYPE,
                    IF call.content_type # None THEN call.content_type[1]
                    ELSE ExpectedGuess(call.url)>>}

\* Exchange::from(("index.html", body of 11 bytes)) has been called
C16_Witness ==
    /\ pc = "from"
    /\ call.url = <<105, 110, 100, 101, 120, 46, 104, 116, 109, 108>>
    /\ call.content_type = None
    /\ Len(call.body) = 11

\* the exchanges exchanges_from_dir has added to those the builder held
WalkAdded == SubSeq(ret.val.exchanges, Len(call.before) + 1, Len(ret.val.exchanges))

\* how many of the added exchanges have this url and this status
WalkCount(url, status) ==
    Cardinality({i \in DOMAIN WalkAdded :
                    /\ WalkAdded[i].request.url = url
                    /\ WalkAdded[i].response.status = status})

WalkFiles(isIndex) ==
    {i \in DOMAIN call.entries :
        /\ call.entries[i].type = "file"
        /\ (call.entries[i].path[Len(call.entries[i].path)] = INDEX_HTML) = isIndex}

\* C17: directory walk.  For every directory tree exchanges_from_dir succeeds
\* and appends, after the exchanges the builder holds, exactly one status-200
\* exchange per regular file that is not called index.html, its url the path
\* below the base directory and its body the file's contents, and exactly two
\* per index.html: one with the relative url of the parent directory, status
\* 200 and the file's contents, one with the url of index.html, status 301, a
\* Location header of "./" and an empty body; nothing for symlinks and
\* directories.
C17_DirectoryWalk ==
    pc = "walk" =>
        /\ IsOk(ret)
        /\ SubSeq(ret.val.exchanges, 1, Len(call.before)) = call.before
        /\ Len(WalkAdded) = Cardinality(WalkFiles(FALSE)) + 2 * Cardinality(WalkFiles(TRUE))
        /\ \A i \in WalkFiles(FALSE) :
              /\ WalkCount(JoinComponents(call.entries[i].path), 200) = 1
              /\ \A j \in DOMAIN WalkAdded :
                    WalkAdded[j].request.url = JoinComponents(call.entries[i].path)
                        => WalkAdded[j].response.body = call.entries[i].contents
        /\ \A i \in WalkFiles(TRUE) :
              /\ WalkCount(JoinComponents(PathParent(call.entries[i].path)), 200) = 1
              /\ WalkCount(JoinComponents(call.entries[i].path), 301) = 1
              /\ \A j \in DOMAIN WalkAdded :
                    /\ WalkAdded[j].request.url
                           = JoinComponents(PathParent(call.entries[i].path))
                         => WalkAdded[j].response.body = call.entries[i].contents
                    /\ WalkAdded[j].request.url = JoinComponents(call.entries[i].path)
                         => /\ WalkAdded[j].response.body = <<>>
                            /\ WalkAdded[j].response.headers
                                   = << <<LOCATION, REDIRECT_LOCATION>> >>

\* C18: webbundle_primary_url.  For a parsed bundle and a buffer of any
\* length the function returns -1 when the bundle has no primary url, -2
\* when the buffer is shorter than the url, and otherwise copies the url to
\* the start of the buffer and returns the number of bytes copied.
C18_FfiPrimaryUrl ==
    (pc = "ffi_url" /\ ret.handle # None) =>
        IF ret.handle[1].primary_url = None
        THEN ret.out.code = -1 /\ ret.out.buffer = call.buffer
        ELSE IF Len(call.buffer) < Len(UriToString(ret.handle[1].primary_url[1]))
        THEN ret.out.code = -2 /\ ret.out.buffer = call.buffer
        ELSE /\ ret.out.code = Len(UriToString(ret.handle[1].primary_url[1]))
             /\ SubSeq(ret.out.buffer, 1, ret.out.code)
                    = UriToString(ret.handle[1].primary_url[1])
             /\ Len(ret.out.buffer) = Len(call.buffer)
             /\ \A i \in (ret.out.code + 1)..Len(call.buffer) :
                    ret.out.buffer[i] = call.buffer[i]


\* the position of the section-lengths byte string: after the array header,
\* the magic and the version
LengthsPosOf(out) == read_version(out, read_magic_bytes(out, 1).val.pos).val.pos

\* the section-lengths byte string of an encoder output
LengthsBlobOf(out) == de_bytes(out, LengthsPosOf(out)).val.v

\* the position of the first section byte of an encoder output
SectionsStartOf(out) ==
    read_array_len(out, read_metadata(out, 0).val.pos).val.pos

\* C26: section-lengths table on encode.  The section-lengths byte string of
\* every encoder output is exactly one CBOR array of 2K items for the K
\* sections of the sections array: the name of each section and, after it,
\* the byte count of the section as encode_sections built it, in the order of
\* the sections array; each section's bytes lie in the output at the first
\* section byte plus the lengths before it, and the lengths sum to the
\* distance from the first section byte to the trailing length.
C26_SectionLengthsOnEncode ==
    EncodedOk =>
        LET out == encoded.val
            blob == LengthsBlobOf(out)
            sections == encode_sections(bundle.val).val
            K == Len(sections)
            table == SectionOffsetsLoop(blob, read_array_len(blob, 0).val.pos, K, 0, {}, <<>>)
        IN  /\ IsOk(read_array_len(blob, 0))
            /\ read_array_len(blob, 0).val.v = 2 * K
            /\ ItemEnd(blob, 0) = Len(blob)
            /\ IsOk(read_metadata(out, 0))
            /\ read_array_len(out, read_metadata(out, 0).val.pos).val.v = K
            /\ IsOk(table)
            /\ blob = write_array(2 * K) \o SectionLengthsLoop(sections)
            /\ \A i \in 1..K :
                  /\ table.val[i].name = sections[i].name
                  /\ table.val[i].length = Len(sections[i].bytes)
                  /\ table.val[i].offset = BytesBefore(sections, i - 1)
                  /\ Slice(out, SectionsStartOf(out) + table.val[i].offset,
                           SectionsStartOf(out) + table.val[i].offset + table.val[i].length)
                         = sections[i].bytes
            /\ BytesBefore(sections, K) = Len(out) - 8 - SectionsStartOf(out)

\* a bundle of three sections and two exchanges has been encoded
C26_Witness ==
    /\ EncodedOk
    /\ Len(TableOf(encoded.val)) = 3
    /\ Len(bundle.val.exchanges) = 2

\* C28: response locations partition the responses section.  For every
\* exchange list encode_response_section accepts, it records one location per
\* exchange; the first offset is the width of the header of the responses
\* array, each next offset is the previous offset plus the previous length,
\* the last offset plus length is the length of the section (which is its
\* header alone when there is no exchange), and so every byte after the
\* array header lies in the range of exactly one exchange.
C28_LocationsPartition ==
    EncodedOk =>
        LET exs == bundle.val.exchanges
            r == encode_response_section(exs)
            locs == r.val.locations
            total == Len(r.val.bytes)
            header == Len(write_array(Len(exs)))
        IN  /\ IsOk(r)
            /\ Len(locs) = Len(exs)
            /\ exs = <<>> => total = header
            /\ exs # <<>> =>
                  /\ locs[1].offset = header
                  /\ locs[Len(locs)].offset + locs[Len(locs)].length = total
            /\ \A i \in 1..(Len(locs) - 1) :
                  locs[i + 1].offset = locs[i].offset + locs[i].length
            /\ \A p \in header..(total - 1) :
                  Cardinality({i \in DOMAIN locs :
                                   locs[i].offset <= p
                                       /\ p < locs[i].offset + locs[i].length}) = 1
            /\ \A i \in DOMAIN locs : locs[i].offset >= header /\ locs[i].length > 0

\* a bundle of two exchanges, the first with a body, has been encoded
C28_Witness ==
    /\ EncodedOk
    /\ Len(bundle.val.exchanges) = 2
    /\ bundle.val.exchanges[1].response.body # <<>>

\* C29: well-formed maps.  In every encoder output the header of the index
\* map and the header of every response-headers map declare as many entries
\* as key/value pairs follow the header, also for a bundle with a repeated
\* request URL and for a response with a repeated header name.
C29_WellFormedMaps ==
    EncodedOk =>
        /\ MapDeclared(SectionOf(encoded.val, NameIndex))
               = Len(MapKeys(SectionOf(encoded.val, NameIndex)))
        /\ \A i \in DOMAIN ResponseItems(encoded.val) :
              MapDeclared(HeadersOfItem(ResponseItems(encoded.val)[i]))
                  = Len(MapKeys(HeadersOfItem(ResponseItems(encoded.val)[i])))

\* base is a prefix of path, component by component
StartsWith(path, base) ==
    Len(base) <= Len(path) /\ SubSeq(path, 1, Len(base)) = base

\* what normalize_path kept of the request path of the call
KeptOf(result) == SubSeq(result, Len(Components(call.root)) + 1, Len(result))

\* C27: path normalization never escapes the root.  For every root and every
\* request path, normalize_path returns the components of root followed by
\* Normal components only, each a name of the request path, never "." or
\* ".." or one holding a '/'; so root is a prefix of the result.  Appending a
\* name to the request path appends it to the result, appending ".." removes
\* the last kept component or does nothing when none is kept, and appending
\* "." or "/" changes nothing.
C27_NormalizeNeverEscapes ==
    pc = "normalized" =>
        /\ StartsWith(ret, Components(call.root))
        /\ \A i \in DOMAIN KeptOf(ret) :
              /\ KeptOf(ret)[i].kind = "Normal"
              /\ KeptOf(ret)[i].name \notin {<<>>, <<46>>, <<46, 46>>}
              /\ 47 \notin Range(KeptOf(ret)[i].name)
              /\ KeptOf(ret)[i] \in Range(Components(call.path))
        /\ normalize_path(call.root, call.path \o <<47, 97>>) = Append(ret, Normal(<<97>>))
        /\ normalize_path(call.root, call.path \o <<47, 46, 46>>)
               = (IF KeptOf(ret) = <<>> THEN ret ELSE SubSeq(ret, 1, Len(ret) - 1))
        /\ normalize_path(call.root, call.path \o <<47, 46>>) = ret
        /\ normalize_path(call.root, call.path \o <<47>>) = ret

\* the request path "../.." has been normalized under the root "/r"
C27_Witness ==
    /\ pc = "normalized"
    /\ call.root = <<47, 114>>
    /\ call.path = <<46, 46, 47, 46, 46>>
    /\ ret = <<RootDir, Normal(<<114>>)>>

DistinctNames(names) == \A i, j \in DOMAIN names : i # j => names[i] # names[j]

\* not empty, no name twice, the last name is "responses"
GoodTable(names) ==
    /\ names # <<>>
    /\ DistinctNames(names)
    /\ names[Len(names)] = NameResponses

\* C21: section table validation.  from_bytes returns an error for every
\* bundle whose section-lengths table is empty, or names a section twice, or
\* does not end with the entry "responses"; a table that read_metadata
\* accepts has pairwise distinct names, ends with "responses" and is the
\* table that was written; and a bundle of well-formed sections whose table
\* has none of the three defects is decoded.
C21_SectionTableValidation ==
    pc = "table" =>
        /\ ~GoodTable(call.names) => parsed.kind = "err"
        /\ IsOk(read_metadata(input, 0)) =>
              /\ GoodTable(SectionNames(input))
              /\ SectionNames(input) = call.names
        /\ GoodTable(call.names) => IsOk(read_metadata(input, 0)) /\ IsOk(parsed)

\* a bundle whose table names index, primary, index, responses has been rejected
C21_Witness ==
    /\ pc = "table"
    /\ call.names = <<NameIndex, NamePrimary, NameIndex, NameResponses>>
    /\ parsed.kind = "err"

\* C22: section count check.  from_bytes returns an error whenever the
\* sections array declares a length other than the number of entries of the
\* section-lengths table, and it does so before any section is sliced: the
\* error is returned also when the table gives a section a range that
\* reaches past the input, which makes from_bytes panic once the lengths
\* agree and the section is sliced.
C22_SectionCountCheck ==
    pc = "count" =>
        /\ call.count # Len(call.entries) => parsed.kind = "err"
        /\ (call.count = Len(call.entries) /\ call.oversized) => parsed.kind = "panic"
        /\ (call.count = Len(call.entries) /\ ~call.oversized) => IsOk(parsed)

\* a bundle of three sections, the first with a range past the input, whose
\* sections array declares two items has been rejected
C22_Witness ==
    /\ pc = "count"
    /\ Len(call.entries) = 3
    /\ call.count = 2
    /\ call.oversized
    /\ parsed.kind = "err"

\* C23: section-lengths size limit.  from_bytes returns an error for every
\* bundle whose section-lengths byte string is 8192 bytes or longer, whatever
\* the byte string holds; a bundle whose byte string is shorter and holds the
\* table of its sections, followed by any number of zero bytes, is decoded
\* to the Bundle it is decoded to without them: 4096 and 8191 bytes are
\* accepted, 8192 and 8193 bytes are rejected.
C23_SectionLengthsLimit ==
    pc = "limit" =>
        /\ Len(call.blob) = (IF call.size = 0 THEN Len(call.blob) ELSE call.size)
        /\ de_bytes(input, LengthsPosOf(input))
               = Read(call.blob, LengthsPosOf(input) + Len(write_bytes(call.blob)))
        /\ Len(call.blob) >= SectionLengthsLimit =>
              /\ parsed.kind = "err"
              /\ read_section_offsets(input, LengthsPosOf(input)).kind = "err"
        /\ (Len(call.blob) < SectionLengthsLimit /\ call.table) =>
              /\ IsOk(read_section_offsets(input, LengthsPosOf(input)))
              /\ IsOk(parsed)
              /\ parsed = parse(RawWellFormed(VersionBytes(VersionB2), None, <<>>,
                                              call.responses))
              /\ Len(parsed.val.exchanges) = Len(call.responses)

\* a bundle whose section-lengths byte string holds its table and is 8192
\* bytes long has been rejected
C23_Witness ==
    /\ pc = "limit"
    /\ call.table
    /\ Len(call.blob) = 8192
    /\ call.responses # <<>>
    /\ parsed.kind = "err"

\* C24: header validation.  from_bytes returns an error for every bundle
\* whose top-level array does not declare 5 items or whose magic differs from
\* F0 9F 8C 90 F0 9F 93 A6 in a byte or in length, and nothing is read after
\* the failure: the error is returned also for a bundle whose index reaches
\* past the input, which makes from_bytes panic when the header is right.
C24_HeaderValidation ==
    pc = "frame" =>
        /\ (call.top # TOP_ARRAY_LEN \/ call.magic # HEADER_MAGIC_BYTES) =>
              /\ parsed.kind = "err"
              /\ read_metadata(input, 0).kind = "err"
        /\ (call.top = TOP_ARRAY_LEN /\ call.magic = HEADER_MAGIC_BYTES) =>
              /\ IsOk(read_metadata(input, 0))
              /\ call.hostile => parsed.kind = "panic"
              /\ ~call.hostile => IsOk(parsed)

\* a bundle with the fourth byte of the magic corrupted and an index that
\* reaches past the input has been rejected
C24_Witness ==
    /\ pc = "frame"
    /\ call.top = TOP_ARRAY_LEN
    /\ call.magic = CorruptMagic(4)
    /\ call.hostile
    /\ parsed.kind = "err"

\* the positions of the :status entries of the pairs of a headers map
StatusEntries(pairs) == {i \in DOMAIN pairs : pairs[i][1] = StatusKey}

\* a name that begins with ':' and is not :status is among the pairs
OtherPseudoHeader(pairs) ==
    \E i \in DOMAIN pairs :
        pairs[i][1] # <<>> /\ pairs[i][1][1] = 58 /\ pairs[i][1] # StatusKey

\* C25: status pseudo-header.  A response whose headers map has no :status
\* entry, or two of them, or an entry of another name that begins with ':',
\* is rejected; when the response is decoded its map has exactly one :status
\* entry and no other ':' name, and the status of the response is the number
\* whose three decimal digits are the value of that entry; and a map with
\* one :status entry of value 200 or 404 and no other ':' name is decoded.
C25_StatusPseudoHeader ==
    pc = "status" =>
        /\ IsOk(parsed) <=> IsOk(read_headers_cbor(RawHeaders(call.pairs)))
        /\ StatusEntries(call.pairs) = {} => parsed.kind = "err"
        /\ Cardinality(StatusEntries(call.pairs)) >= 2 => parsed.kind = "err"
        /\ OtherPseudoHeader(call.pairs) => parsed.kind = "err"
        /\ IsOk(parsed) =>
              /\ Cardinality(StatusEntries(call.pairs)) = 1
              /\ ~OtherPseudoHeader(call.pairs)
              /\ parsed.val.exchanges[1].response.status \in 100..999
              /\ \A i \in StatusEntries(call.pairs) :
                    ToDecimal(parsed.val.exchanges[1].response.status) = call.pairs[i][2]
              /\ \A j \in DOMAIN parsed.val.exchanges[1].response.headers :
                    parsed.val.exchanges[1].response.headers[j][1] # StatusKey
        /\ (/\ Cardinality(StatusEntries(call.pairs)) = 1
            /\ ~OtherPseudoHeader(call.pairs)
            /\ \A i \in StatusEntries(call.pairs) :
                  call.pairs[i][2] \in {<<50, 48, 48>>, <<52, 48, 52>>})
               => IsOk(parsed)

\* a response with :status 200 and then :status 404 has been rejected
C25_Witness ==
    /\ pc = "status"
    /\ call.pairs = <<StatusPair(<<50, 48, 48>>), StatusPair(<<52, 48, 52>>)>>
    /\ parsed.kind = "err"

\* C30: the trailing length is never read.  Two inputs that agree on every
\* byte up to the end of the last section are decoded to the same outcome,
\* the same Bundle or the same error, whatever follows the last section: the
\* trailing length, a wrong one, one written as a CBOR unsigned integer,
\* nothing, or further bytes.
C30_TrailingLengthNeverRead ==
    pc = "trailer" => parsed = parse(call.body \o RawTrailer(call.body))
=============================================================================
